---- MODULE Spec2Model ----
(***************************************************************************)
(* A model of the 6502 emulator core of mitchchn/nes: the CPU interpreter  *)
(* (src/src/cpu.rs), the memory and bus it reads and writes (mem.rs,       *)
(* bus.rs) and the background executor with its pause, step, reset and run *)
(* commands (machine.rs).                                                  *)
(*                                                                         *)
(* Bytes and words are naturals; every arithmetic step states its width.   *)
(* Memory is a finite map holding the non-zero cells of the 64 KiB array   *)
(* that Memory::new zero-fills.                                            *)
(***************************************************************************)
EXTENDS Integers, Sequences, FiniteSets, TLC

VARIABLES
    cpu,              \* CPU6502: registers, counters and the IO it owns (cpu.mem)
    overflow_checks,  \* build profile: TRUE = arithmetic overflow panics (debug), FALSE = wraps (release)
    hist,             \* history of the last CPU call, for stating the properties
    HALT,             \* machine.rs: static HALT: AtomicBool
    cpu_lock,         \* holder of the Arc<Mutex<CPU6502>> between steps: 0 when free, else an executor id
    machine,          \* Machine fields: breakpoints, max_speed, non_interactive_mode, clock_speed
    executors,        \* the spawned executor threads, by id
    ui                \* the frontend thread (TUI key loop, or the CLI main thread)

vars == <<cpu, overflow_checks, hist, HALT, cpu_lock, machine, executors, ui>>

(***************************************************************************)
(* Bit arithmetic on fixed-width naturals.                                 *)
(***************************************************************************)
RECURSIVE AndN(_, _, _)
AndN(a, b, n) == IF n = 0 THEN 0 ELSE (a % 2) * (b % 2) + 2 * AndN(a \div 2, b \div 2, n - 1)

RECURSIVE OrN(_, _, _)
OrN(a, b, n) ==
    IF n = 0 THEN 0
    ELSE (IF (a % 2) + (b % 2) > 0 THEN 1 ELSE 0) + 2 * OrN(a \div 2, b \div 2, n - 1)

RECURSIVE XorN(_, _, _)
XorN(a, b, n) == IF n = 0 THEN 0 ELSE ((a + b) % 2) + 2 * XorN(a \div 2, b \div 2, n - 1)

And8(a, b) == AndN(a, b, 8)
Or8(a, b) == OrN(a, b, 8)
Xor8(a, b) == XorN(a, b, 8)
And16(a, b) == AndN(a, b, 16)

Hi(w) == (w \div 256) % 256
Lo(w) == w % 256
Word(hi, lo) == hi * 256 + lo

(***************************************************************************)
(* Status: the processor status register bits.                             *)
(***************************************************************************)
Status_N == 128
Status_V == 64
Status_U == 32
Status_B == 16
Status_D == 8
Status_I == 4
Status_Z == 2
Status_C == 1

contains(p, f) == (p \div f) % 2 = 1

set(p, f, value) ==
    IF value THEN (IF contains(p, f) THEN p ELSE p + f)
    ELSE (IF contains(p, f) THEN p - f ELSE p)

STACK == 256

(***************************************************************************)
(* The instruction table: (Opcode, Mode, cycles, operation), by opcode.    *)
(***************************************************************************)
INSTRUCTIONS == <<
    [op |-> "BRK", mode |-> "IMP", cycles |-> 7, fn |-> "brk"],  \* 00
    [op |-> "ORA", mode |-> "ZIX", cycles |-> 6, fn |-> "ora"],  \* 01
    [op |-> "XXX", mode |-> "IMP", cycles |-> 2, fn |-> "xxx"],  \* 02
    [op |-> "XXX", mode |-> "IMP", cycles |-> 8, fn |-> "xxx"],  \* 03
    [op |-> "NOP", mode |-> "IMP", cycles |-> 3, fn |-> "nop"],  \* 04
    [op |-> "ORA", mode |-> "ZPG", cycles |-> 3, fn |-> "ora"],  \* 05
    [op |-> "ASL", mode |-> "ZPG", cycles |-> 5, fn |-> "asl"],  \* 06
    [op |-> "XXX", mode |-> "IMP", cycles |-> 5, fn |-> "xxx"],  \* 07
    [op |-> "PHP", mode |-> "IMP", cycles |-> 3, fn |-> "php"],  \* 08
    [op |-> "ORA", mode |-> "IMM", cycles |-> 2, fn |-> "ora"],  \* 09
    [op |-> "ASL", mode |-> "ACC", cycles |-> 2, fn |-> "asl_a"],  \* 0A
    [op |-> "XXX", mode |-> "IMP", cycles |-> 2, fn |-> "xxx"],  \* 0B
    [op |-> "NOP", mode |-> "IMP", cycles |-> 4, fn |-> "nop"],  \* 0C
    [op |-> "ORA", mode |-> "ABS", cycles |-> 4, fn |-> "ora"],  \* 0D
    [op |-> "ASL", mode |-> "ABS", cycles |-> 6, fn |-> "asl"],  \* 0E
    [op |-> "XXX", mode |-> "IMP", cycles |-> 6, fn |-> "xxx"],  \* 0F
    [op |-> "BPL", mode |-> "REL", cycles |-> 2, fn |-> "bpl"],  \* 10
    [op |-> "ORA", mode |-> "ZIY", cycles |-> 5, fn |-> "ora"],  \* 11
    [op |-> "XXX", mode |-> "IMP", cycles |-> 2, fn |-> "xxx"],  \* 12
    [op |-> "XXX", mode |-> "IMP", cycles |-> 8, fn |-> "xxx"],  \* 13
    [op |-> "NOP", mode |-> "IMP", cycles |-> 4, fn |-> "nop"],  \* 14
    [op |-> "ORA", mode |-> "ZPX", cycles |-> 4, fn |-> "ora"],  \* 15
    [op |-> "ASL", mode |-> "ZPX", cycles |-> 6, fn |-> "asl"],  \* 16
    [op |-> "XXX", mode |-> "IMP", cycles |-> 6, fn |-> "xxx"],  \* 17
    [op |-> "CLC", mode |-> "IMP", cycles |-> 2, fn |-> "clc"],  \* 18
    [op |-> "ORA", mode |-> "ABY", cycles |-> 4, fn |-> "ora"],  \* 19
    [op |-> "NOP", mode |-> "IMP", cycles |-> 2, fn |-> "nop"],  \* 1A
    [op |-> "XXX", mode |-> "IMP", cycles |-> 7, fn |-> "xxx"],  \* 1B
    [op |-> "NOP", mode |-> "IMP", cycles |-> 4, fn |-> "nop"],  \* 1C
    [op |-> "ORA", mode |-> "ABX", cycles |-> 4, fn |-> "ora"],  \* 1D
    [op |-> "ASL", mode |-> "ABX", cycles |-> 7, fn |-> "asl"],  \* 1E
    [op |-> "XXX", mode |-> "IMP", cycles |-> 7, fn |-> "xxx"],  \* 1F
    [op |-> "JSR", mode |-> "ABS", cycles |-> 6, fn |-> "jsr"],  \* 20
    [op |-> "AND", mode |-> "ZIX", cycles |-> 6, fn |-> "and"],  \* 21
    [op |-> "XXX", mode |-> "IMP", cycles |-> 2, fn |-> "xxx"],  \* 22
    [op |-> "XXX", mode |-> "IMP", cycles |-> 8, fn |-> "xxx"],  \* 23
    [op |-> "BIT", mode |-> "ZPG", cycles |-> 3, fn |-> "bit"],  \* 24
    [op |-> "AND", mode |-> "ZPG", cycles |-> 3, fn |-> "and"],  \* 25
    [op |-> "ROL", mode |-> "ZPG", cycles |-> 5, fn |-> "rol"],  \* 26
    [op |-> "XXX", mode |-> "IMP", cycles |-> 5, fn |-> "xxx"],  \* 27
    [op |-> "PLP", mode |-> "IMP", cycles |-> 4, fn |-> "plp"],  \* 28
    [op |-> "AND", mode |-> "IMM", cycles |-> 2, fn |-> "and"],  \* 29
    [op |-> "ROL", mode |-> "ACC", cycles |-> 2, fn |-> "rol_a"],  \* 2A
    [op |-> "XXX", mode |-> "IMP", cycles |-> 2, fn |-> "xxx"],  \* 2B
    [op |-> "BIT", mode |-> "ABS", cycles |-> 4, fn |-> "bit"],  \* 2C
    [op |-> "AND", mode |-> "ABS", cycles |-> 4, fn |-> "and"],  \* 2D
    [op |-> "ROL", mode |-> "ABS", cycles |-> 6, fn |-> "rol"],  \* 2E
    [op |-> "XXX", mode |-> "IMP", cycles |-> 6, fn |-> "xxx"],  \* 2F
    [op |-> "BMI", mode |-> "REL", cycles |-> 2, fn |-> "bmi"],  \* 30
    [op |-> "AND", mode |-> "ZIY", cycles |-> 5, fn |-> "and"],  \* 31
    [op |-> "XXX", mode |-> "IMP", cycles |-> 2, fn |-> "xxx"],  \* 32
    [op |-> "XXX", mode |-> "IMP", cycles |-> 8, fn |-> "xxx"],  \* 33
    [op |-> "NOP", mode |-> "IMP", cycles |-> 4, fn |-> "nop"],  \* 34
    [op |-> "AND", mode |-> "ZPX", cycles |-> 4, fn |-> "and"],  \* 35
    [op |-> "ROL", mode |-> "ZPX", cycles |-> 6, fn |-> "rol"],  \* 36
    [op |-> "XXX", mode |-> "IMP", cycles |-> 6, fn |-> "xxx"],  \* 37
    [op |-> "SEC", mode |-> "IMP", cycles |-> 2, fn |-> "sec"],  \* 38
    [op |-> "AND", mode |-> "ABY", cycles |-> 4, fn |-> "and"],  \* 39
    [op |-> "NOP", mode |-> "IMP", cycles |-> 2, fn |-> "nop"],  \* 3A
    [op |-> "XXX", mode |-> "IMP", cycles |-> 7, fn |-> "xxx"],  \* 3B
    [op |-> "NOP", mode |-> "IMP", cycles |-> 4, fn |-> "nop"],  \* 3C
    [op |-> "AND", mode |-> "ABX", cycles |-> 4, fn |-> "and"],  \* 3D
    [op |-> "ROL", mode |-> "ABX", cycles |-> 7, fn |-> "rol"],  \* 3E
    [op |-> "XXX", mode |-> "IMP", cycles |-> 7, fn |-> "xxx"],  \* 3F
    [op |-> "RTI", mode |-> "IMP", cycles |-> 6, fn |-> "rti"],  \* 40
    [op |-> "EOR", mode |-> "ZIX", cycles |-> 6, fn |-> "eor"],  \* 41
    [op |-> "XXX", mode |-> "IMP", cycles |-> 2, fn |-> "xxx"],  \* 42
    [op |-> "XXX", mode |-> "IMP", cycles |-> 8, fn |-> "xxx"],  \* 43
    [op |-> "NOP", mode |-> "IMP", cycles |-> 3, fn |-> "nop"],  \* 44
    [op |-> "EOR", mode |-> "ZPG", cycles |-> 3, fn |-> "eor"],  \* 45
    [op |-> "LSR", mode |-> "ZPG", cycles |-> 5, fn |-> "lsr"],  \* 46
    [op |-> "XXX", mode |-> "IMP", cycles |-> 5, fn |-> "xxx"],  \* 47
    [op |-> "PHA", mode |-> "IMP", cycles |-> 3, fn |-> "pha"],  \* 48
    [op |-> "EOR", mode |-> "IMM", cycles |-> 2, fn |-> "eor"],  \* 49
    [op |-> "LSR", mode |-> "ACC", cycles |-> 2, fn |-> "lsr_a"],  \* 4A
    [op |-> "XXX", mode |-> "IMP", cycles |-> 2, fn |-> "xxx"],  \* 4B
    [op |-> "JMP", mode |-> "ABS", cycles |-> 3, fn |-> "jmp"],  \* 4C
    [op |-> "EOR", mode |-> "ABS", cycles |-> 4, fn |-> "eor"],  \* 4D
    [op |-> "LSR", mode |-> "ABS", cycles |-> 6, fn |-> "lsr"],  \* 4E
    [op |-> "XXX", mode |-> "IMP", cycles |-> 6, fn |-> "xxx"],  \* 4F
    [op |-> "BVC", mode |-> "REL", cycles |-> 2, fn |-> "bvc"],  \* 50
    [op |-> "EOR", mode |-> "ZIY", cycles |-> 5, fn |-> "eor"],  \* 51
    [op |-> "XXX", mode |-> "IMP", cycles |-> 2, fn |-> "xxx"],  \* 52
    [op |-> "XXX", mode |-> "IMP", cycles |-> 8, fn |-> "xxx"],  \* 53
    [op |-> "NOP", mode |-> "IMP", cycles |-> 4, fn |-> "nop"],  \* 54
    [op |-> "EOR", mode |-> "ZPX", cycles |-> 4, fn |-> "eor"],  \* 55
    [op |-> "LSR", mode |-> "ZPX", cycles |-> 6, fn |-> "lsr"],  \* 56
    [op |-> "XXX", mode |-> "IMP", cycles |-> 6, fn |-> "xxx"],  \* 57
    [op |-> "CLI", mode |-> "IMP", cycles |-> 2, fn |-> "cli"],  \* 58
    [op |-> "EOR", mode |-> "ABY", cycles |-> 4, fn |-> "eor"],  \* 59
    [op |-> "NOP", mode |-> "IMP", cycles |-> 2, fn |-> "nop"],  \* 5A
    [op |-> "XXX", mode |-> "IMP", cycles |-> 7, fn |-> "xxx"],  \* 5B
    [op |-> "NOP", mode |-> "IMP", cycles |-> 4, fn |-> "nop"],  \* 5C
    [op |-> "EOR", mode |-> "ABX", cycles |-> 4, fn |-> "eor"],  \* 5D
    [op |-> "LSR", mode |-> "ABX", cycles |-> 7, fn |-> "lsr"],  \* 5E
    [op |-> "XXX", mode |-> "IMP", cycles |-> 7, fn |-> "xxx"],  \* 5F
    [op |-> "RTS", mode |-> "IMP", cycles |-> 6, fn |-> "rts"],  \* 60
    [op |-> "ADC", mode |-> "ZIX", cycles |-> 6, fn |-> "adc"],  \* 61
    [op |-> "XXX", mode |-> "IMP", cycles |-> 2, fn |-> "xxx"],  \* 62
    [op |-> "XXX", mode |-> "IMP", cycles |-> 8, fn |-> "xxx"],  \* 63
    [op |-> "NOP", mode |-> "IMP", cycles |-> 3, fn |-> "nop"],  \* 64
    [op |-> "ADC", mode |-> "ZPG", cycles |-> 3, fn |-> "adc"],  \* 65
    [op |-> "ROR", mode |-> "ZPG", cycles |-> 5, fn |-> "ror"],  \* 66
    [op |-> "XXX", mode |-> "IMP", cycles |-> 5, fn |-> "xxx"],  \* 67
    [op |-> "PLA", mode |-> "IMP", cycles |-> 4, fn |-> "pla"],  \* 68
    [op |-> "ADC", mode |-> "IMM", cycles |-> 2, fn |-> "adc"],  \* 69
    [op |-> "ROR", mode |-> "ACC", cycles |-> 2, fn |-> "ror_a"],  \* 6A
    [op |-> "XXX", mode |-> "IMP", cycles |-> 2, fn |-> "xxx"],  \* 6B
    [op |-> "JMP", mode |-> "IND", cycles |-> 5, fn |-> "jmp"],  \* 6C
    [op |-> "ADC", mode |-> "ABS", cycles |-> 4, fn |-> "adc"],  \* 6D
    [op |-> "ROR", mode |-> "ABS", cycles |-> 6, fn |-> "ror"],  \* 6E
    [op |-> "XXX", mode |-> "IMP", cycles |-> 6, fn |-> "xxx"],  \* 6F
    [op |-> "BVS", mode |-> "REL", cycles |-> 2, fn |-> "bvs"],  \* 70
    [op |-> "ADC", mode |-> "ZIY", cycles |-> 5, fn |-> "adc"],  \* 71
    [op |-> "XXX", mode |-> "IMP", cycles |-> 2, fn |-> "xxx"],  \* 72
    [op |-> "XXX", mode |-> "IMP", cycles |-> 8, fn |-> "xxx"],  \* 73
    [op |-> "NOP", mode |-> "IMP", cycles |-> 4, fn |-> "nop"],  \* 74
    [op |-> "ADC", mode |-> "ZPX", cycles |-> 4, fn |-> "adc"],  \* 75
    [op |-> "ROR", mode |-> "ZPX", cycles |-> 6, fn |-> "ror"],  \* 76
    [op |-> "XXX", mode |-> "IMP", cycles |-> 6, fn |-> "xxx"],  \* 77
    [op |-> "SEI", mode |-> "IMP", cycles |-> 2, fn |-> "sei"],  \* 78
    [op |-> "ADC", mode |-> "ABY", cycles |-> 4, fn |-> "adc"],  \* 79
    [op |-> "NOP", mode |-> "IMP", cycles |-> 2, fn |-> "nop"],  \* 7A
    [op |-> "XXX", mode |-> "IMP", cycles |-> 7, fn |-> "xxx"],  \* 7B
    [op |-> "NOP", mode |-> "IMP", cycles |-> 4, fn |-> "nop"],  \* 7C
    [op |-> "ADC", mode |-> "ABX", cycles |-> 4, fn |-> "adc"],  \* 7D
    [op |-> "ROR", mode |-> "ABX", cycles |-> 7, fn |-> "ror"],  \* 7E
    [op |-> "XXX", mode |-> "IMP", cycles |-> 7, fn |-> "xxx"],  \* 7F
    [op |-> "NOP", mode |-> "IMP", cycles |-> 2, fn |-> "nop"],  \* 80
    [op |-> "STA", mode |-> "ZIX", cycles |-> 6, fn |-> "sta"],  \* 81
    [op |-> "NOP", mode |-> "IMP", cycles |-> 2, fn |-> "nop"],  \* 82
    [op |-> "XXX", mode |-> "IMP", cycles |-> 6, fn |-> "xxx"],  \* 83
    [op |-> "STY", mode |-> "ZPG", cycles |-> 3, fn |-> "sty"],  \* 84
    [op |-> "STA", mode |-> "ZPG", cycles |-> 3, fn |-> "sta"],  \* 85
    [op |-> "STX", mode |-> "ZPG", cycles |-> 3, fn |-> "stx"],  \* 86
    [op |-> "XXX", mode |-> "IMP", cycles |-> 3, fn |-> "xxx"],  \* 87
    [op |-> "DEY", mode |-> "IMP", cycles |-> 2, fn |-> "dey"],  \* 88
    [op |-> "NOP", mode |-> "IMP", cycles |-> 2, fn |-> "nop"],  \* 89
    [op |-> "TXA", mode |-> "IMP", cycles |-> 2, fn |-> "txa"],  \* 8A
    [op |-> "XXX", mode |-> "IMP", cycles |-> 2, fn |-> "xxx"],  \* 8B
    [op |-> "STY", mode |-> "ABS", cycles |-> 4, fn |-> "sty"],  \* 8C
    [op |-> "STA", mode |-> "ABS", cycles |-> 4, fn |-> "sta"],  \* 8D
    [op |-> "STX", mode |-> "ABS", cycles |-> 4, fn |-> "stx"],  \* 8E
    [op |-> "XXX", mode |-> "IMP", cycles |-> 4, fn |-> "xxx"],  \* 8F
    [op |-> "BCC", mode |-> "REL", cycles |-> 2, fn |-> "bcc"],  \* 90
    [op |-> "STA", mode |-> "ZIY", cycles |-> 6, fn |-> "sta"],  \* 91
    [op |-> "XXX", mode |-> "IMP", cycles |-> 2, fn |-> "xxx"],  \* 92
    [op |-> "XXX", mode |-> "IMP", cycles |-> 6, fn |-> "xxx"],  \* 93
    [op |-> "STY", mode |-> "ZPX", cycles |-> 4, fn |-> "sty"],  \* 94
    [op |-> "STA", mode |-> "ZPX", cycles |-> 4, fn |-> "sta"],  \* 95
    [op |-> "STX", mode |-> "ZPY", cycles |-> 4, fn |-> "stx"],  \* 96
    [op |-> "XXX", mode |-> "IMP", cycles |-> 4, fn |-> "xxx"],  \* 97
    [op |-> "TYA", mode |-> "IMP", cycles |-> 2, fn |-> "tya"],  \* 98
    [op |-> "STA", mode |-> "ABY", cycles |-> 5, fn |-> "sta"],  \* 99
    [op |-> "TXS", mode |-> "IMP", cycles |-> 2, fn |-> "txs"],  \* 9A
    [op |-> "XXX", mode |-> "IMP", cycles |-> 5, fn |-> "xxx"],  \* 9B
    [op |-> "NOP", mode |-> "IMP", cycles |-> 5, fn |-> "nop"],  \* 9C
    [op |-> "STA", mode |-> "ABX", cycles |-> 5, fn |-> "sta"],  \* 9D
    [op |-> "XXX", mode |-> "IMP", cycles |-> 5, fn |-> "xxx"],  \* 9E
    [op |-> "XXX", mode |-> "IMP", cycles |-> 5, fn |-> "xxx"],  \* 9F
    [op |-> "LDY", mode |-> "IMM", cycles |-> 2, fn |-> "ldy"],  \* A0
    [op |-> "LDA", mode |-> "ZIX", cycles |-> 6, fn |-> "lda"],  \* A1
    [op |-> "LDX", mode |-> "IMM", cycles |-> 2, fn |-> "ldx"],  \* A2
    [op |-> "XXX", mode |-> "IMP", cycles |-> 6, fn |-> "xxx"],  \* A3
    [op |-> "LDY", mode |-> "ZPG", cycles |-> 3, fn |-> "ldy"],  \* A4
    [op |-> "LDA", mode |-> "ZPG", cycles |-> 3, fn |-> "lda"],  \* A5
    [op |-> "LDX", mode |-> "ZPG", cycles |-> 3, fn |-> "ldx"],  \* A6
    [op |-> "XXX", mode |-> "IMP", cycles |-> 3, fn |-> "xxx"],  \* A7
    [op |-> "TAY", mode |-> "IMP", cycles |-> 2, fn |-> "tay"],  \* A8
    [op |-> "LDA", mode |-> "IMM", cycles |-> 2, fn |-> "lda"],  \* A9
    [op |-> "TAX", mode |-> "IMP", cycles |-> 2, fn |-> "tax"],  \* AA
    [op |-> "XXX", mode |-> "IMP", cycles |-> 2, fn |-> "xxx"],  \* AB
    [op |-> "LDY", mode |-> "ABS", cycles |-> 4, fn |-> "ldy"],  \* AC
    [op |-> "LDA", mode |-> "ABS", cycles |-> 4, fn |-> "lda"],  \* AD
    [op |-> "LDX", mode |-> "ABS", cycles |-> 4, fn |-> "ldx"],  \* AE
    [op |-> "XXX", mode |-> "IMP", cycles |-> 4, fn |-> "xxx"],  \* AF
    [op |-> "BCS", mode |-> "REL", cycles |-> 2, fn |-> "bcs"],  \* B0
    [op |-> "LDA", mode |-> "ZIY", cycles |-> 5, fn |-> "lda"],  \* B1
    [op |-> "XXX", mode |-> "IMP", cycles |-> 2, fn |-> "xxx"],  \* B2
    [op |-> "XXX", mode |-> "IMP", cycles |-> 5, fn |-> "xxx"],  \* B3
    [op |-> "LDY", mode |-> "ZPX", cycles |-> 4, fn |-> "ldy"],  \* B4
    [op |-> "LDA", mode |-> "ZPX", cycles |-> 4, fn |-> "lda"],  \* B5
    [op |-> "LDX", mode |-> "ZPY", cycles |-> 4, fn |-> "ldx"],  \* B6
    [op |-> "XXX", mode |-> "IMP", cycles |-> 4, fn |-> "xxx"],  \* B7
    [op |-> "CLV", mode |-> "IMP", cycles |-> 2, fn |-> "clv"],  \* B8
    [op |-> "LDA", mode |-> "ABY", cycles |-> 4, fn |-> "lda"],  \* B9
    [op |-> "TSX", mode |-> "IMP", cycles |-> 2, fn |-> "tsx"],  \* BA
    [op |-> "XXX", mode |-> "IMP", cycles |-> 4, fn |-> "xxx"],  \* BB
    [op |-> "LDY", mode |-> "ABX", cycles |-> 4, fn |-> "ldy"],  \* BC
    [op |-> "LDA", mode |-> "ABX", cycles |-> 4, fn |-> "lda"],  \* BD
    [op |-> "LDX", mode |-> "ABY", cycles |-> 4, fn |-> "ldx"],  \* BE
    [op |-> "XXX", mode |-> "IMP", cycles |-> 4, fn |-> "xxx"],  \* BF
    [op |-> "CPY", mode |-> "IMM", cycles |-> 2, fn |-> "cpy"],  \* C0
    [op |-> "CMP", mode |-> "ZIX", cycles |-> 6, fn |-> "cmp"],  \* C1
    [op |-> "NOP", mode |-> "IMP", cycles |-> 2, fn |-> "nop"],  \* C2
    [op |-> "XXX", mode |-> "IMP", cycles |-> 8, fn |-> "xxx"],  \* C3
    [op |-> "CPY", mode |-> "ZPG", cycles |-> 3, fn |-> "cpy"],  \* C4
    [op |-> "CMP", mode |-> "ZPG", cycles |-> 3, fn |-> "cmp"],  \* C5
    [op |-> "DEC", mode |-> "ZPG", cycles |-> 5, fn |-> "dec"],  \* C6
    [op |-> "XXX", mode |-> "IMP", cycles |-> 5, fn |-> "xxx"],  \* C7
    [op |-> "INY", mode |-> "IMP", cycles |-> 2, fn |-> "iny"],  \* C8
    [op |-> "CMP", mode |-> "IMM", cycles |-> 2, fn |-> "cmp"],  \* C9
    [op |-> "DEX", mode |-> "IMP", cycles |-> 2, fn |-> "dex"],  \* CA
    [op |-> "XXX", mode |-> "IMP", cycles |-> 2, fn |-> "xxx"],  \* CB
    [op |-> "CPY", mode |-> "ABS", cycles |-> 4, fn |-> "cpy"],  \* CC
    [op |-> "CMP", mode |-> "ABS", cycles |-> 4, fn |-> "cmp"],  \* CD
    [op |-> "DEC", mode |-> "ABS", cycles |-> 6, fn |-> "dec"],  \* CE
    [op |-> "XXX", mode |-> "IMP", cycles |-> 6, fn |-> "xxx"],  \* CF
    [op |-> "BNE", mode |-> "REL", cycles |-> 2, fn |-> "bne"],  \* D0
    [op |-> "CMP", mode |-> "ZIY", cycles |-> 5, fn |-> "cmp"],  \* D1
    [op |-> "XXX", mode |-> "IMP", cycles |-> 2, fn |-> "xxx"],  \* D2
    [op |-> "XXX", mode |-> "IMP", cycles |-> 8, fn |-> "xxx"],  \* D3
    [op |-> "NOP", mode |-> "IMP", cycles |-> 4, fn |-> "nop"],  \* D4
    [op |-> "CMP", mode |-> "ZPX", cycles |-> 4, fn |-> "cmp"],  \* D5
    [op |-> "DEC", mode |-> "ZPX", cycles |-> 6, fn |-> "dec"],  \* D6
    [op |-> "XXX", mode |-> "IMP", cycles |-> 6, fn |-> "xxx"],  \* D7
    [op |-> "CLD", mode |-> "IMP", cycles |-> 2, fn |-> "cld"],  \* D8
    [op |-> "CMP", mode |-> "ABY", cycles |-> 4, fn |-> "cmp"],  \* D9
    [op |-> "NOP", mode |-> "IMP", cycles |-> 2, fn |-> "nop"],  \* DA
    [op |-> "XXX", mode |-> "IMP", cycles |-> 7, fn |-> "xxx"],  \* DB
    [op |-> "NOP", mode |-> "IMP", cycles |-> 4, fn |-> "nop"],  \* DC
    [op |-> "CMP", mode |-> "ABX", cycles |-> 4, fn |-> "cmp"],  \* DD
    [op |-> "DEC", mode |-> "ABX", cycles |-> 7, fn |-> "dec"],  \* DE
    [op |-> "XXX", mode |-> "IMP", cycles |-> 7, fn |-> "xxx"],  \* DF
    [op |-> "CPX", mode |-> "IMM", cycles |-> 2, fn |-> "cpx"],  \* E0
    [op |-> "SBC", mode |-> "ZIX", cycles |-> 6, fn |-> "sbc"],  \* E1
    [op |-> "NOP", mode |-> "IMP", cycles |-> 2, fn |-> "nop"],  \* E2
    [op |-> "XXX", mode |-> "IMP", cycles |-> 8, fn |-> "xxx"],  \* E3
    [op |-> "CPX", mode |-> "ZPG", cycles |-> 3, fn |-> "cpx"],  \* E4
    [op |-> "SBC", mode |-> "ZPG", cycles |-> 3, fn |-> "sbc"],  \* E5
    [op |-> "INC", mode |-> "ZPG", cycles |-> 5, fn |-> "inc"],  \* E6
    [op |-> "XXX", mode |-> "IMP", cycles |-> 5, fn |-> "xxx"],  \* E7
    [op |-> "INX", mode |-> "IMP", cycles |-> 2, fn |-> "inx"],  \* E8
    [op |-> "SBC", mode |-> "IMM", cycles |-> 2, fn |-> "sbc"],  \* E9
    [op |-> "NOP", mode |-> "IMP", cycles |-> 2, fn |-> "nop"],  \* EA
    [op |-> "SBC", mode |-> "IMP", cycles |-> 2, fn |-> "sbc"],  \* EB
    [op |-> "CPX", mode |-> "ABS", cycles |-> 4, fn |-> "cpx"],  \* EC
    [op |-> "SBC", mode |-> "ABS", cycles |-> 4, fn |-> "sbc"],  \* ED
    [op |-> "INC", mode |-> "ABS", cycles |-> 6, fn |-> "inc"],  \* EE
    [op |-> "XXX", mode |-> "IMP", cycles |-> 6, fn |-> "xxx"],  \* EF
    [op |-> "BEQ", mode |-> "REL", cycles |-> 2, fn |-> "beq"],  \* F0
    [op |-> "SBC", mode |-> "ZIY", cycles |-> 5, fn |-> "sbc"],  \* F1
    [op |-> "XXX", mode |-> "IMP", cycles |-> 2, fn |-> "xxx"],  \* F2
    [op |-> "XXX", mode |-> "IMP", cycles |-> 8, fn |-> "xxx"],  \* F3
    [op |-> "NOP", mode |-> "IMP", cycles |-> 4, fn |-> "nop"],  \* F4
    [op |-> "SBC", mode |-> "ZPX", cycles |-> 4, fn |-> "sbc"],  \* F5
    [op |-> "INC", mode |-> "ZPX", cycles |-> 6, fn |-> "inc"],  \* F6
    [op |-> "XXX", mode |-> "IMP", cycles |-> 6, fn |-> "xxx"],  \* F7
    [op |-> "SED", mode |-> "IMP", cycles |-> 2, fn |-> "sed"],  \* F8
    [op |-> "SBC", mode |-> "ABY", cycles |-> 4, fn |-> "sbc"],  \* F9
    [op |-> "NOP", mode |-> "IMP", cycles |-> 2, fn |-> "nop"],  \* FA
    [op |-> "XXX", mode |-> "IMP", cycles |-> 7, fn |-> "xxx"],  \* FB
    [op |-> "NOP", mode |-> "IMP", cycles |-> 4, fn |-> "nop"],  \* FC
    [op |-> "SBC", mode |-> "ABX", cycles |-> 4, fn |-> "sbc"],  \* FD
    [op |-> "INC", mode |-> "ABX", cycles |-> 7, fn |-> "inc"],  \* FE
    [op |-> "XXX", mode |-> "IMP", cycles |-> 7, fn |-> "xxx"]   \* FF
>>

Instruction(opcode) == INSTRUCTIONS[opcode + 1]

(***************************************************************************)
(* Memory (mem.rs), Rng (rng.rs), Cart (cart.rs) and Bus (bus.rs).         *)
(* An IO value is a record: kind "Memory" is the bare 64 KiB array the     *)
(* unit tests give the CPU; kind "Bus" is Machine's bus.  entropy is the   *)
(* byte the host random generator yields for reads made during the call    *)
(* in progress.                                                            *)
(***************************************************************************)
NoCart == [present |-> FALSE]

Memory_new == [k \in {} |-> 0]

Memory_read(ram, addr) == IF addr \in DOMAIN ram THEN ram[addr] ELSE 0

Memory_write(ram, addr, data) ==
    [k \in (IF data = 0 THEN DOMAIN ram \ {addr} ELSE DOMAIN ram \cup {addr}) |->
        IF k = addr THEN data ELSE ram[k]]

\* Memory::load: data[i] is stored at offset + i, for every i in turn
Memory_load(ram, data, offset) ==
    LET loaded == { offset + i - 1 : i \in 1..Len(data) }
        byte(k) == IF k \in loaded THEN data[k - offset + 1] ELSE ram[k]
    IN  [k \in { j \in DOMAIN ram \cup loaded : byte(j) # 0 } |-> byte(k)]

Cart_read_unmirrored(cart, addr) ==
    IF addr <= 8191 THEN Memory_read(cart.chr_rom, addr)
    ELSE IF addr >= 32768 THEN Memory_read(cart.prg_rom, addr - 32768)
    ELSE 0

Cart_read(cart, addr) ==
    IF addr <= 8191 THEN Memory_read(cart.chr_rom, addr)
    ELSE IF addr >= 32768 THEN Memory_read(cart.prg_rom, (addr - 32768) % 16384)
    ELSE 0

\* Ppu::new
Ppu_new == [cart |-> NoCart]

\* impl IO for Ppu: read
Ppu_read(ppu, addr) ==
    IF addr < 8192 THEN (IF ppu.cart.present THEN Cart_read(ppu.cart, addr) ELSE 0)
    ELSE 0

\* impl IO for Ppu: write, which is todo!() and panics
Ppu_write(ppu, addr, data) == [ppu |-> ppu, panic |-> TRUE]

ROM_START == 16384

Bus_read(bus, addr) ==
    IF addr = 254 THEN (IF bus.rng THEN bus.entropy ELSE 0)
    ELSE IF addr >= ROM_START THEN
        (IF bus.cart.present THEN Cart_read(bus.cart, addr) ELSE Memory_read(bus.ram, addr))
    ELSE Memory_read(bus.ram, addr)

Bus_write_to_cart(bus, addr, data) ==
    IF bus.cart.present /\ addr >= 32768
    THEN [bus EXCEPT !.cart.prg_rom = Memory_write(@, (addr - 32768) % 16384, data)]
    ELSE [bus EXCEPT !.ram = Memory_write(@, addr, data)]

Bus_write(bus, addr, data) == [bus EXCEPT !.ram = Memory_write(@, addr, data)]

IO_read(io, addr) ==
    IF io.kind = "Memory" THEN Memory_read(io.ram, addr) ELSE Bus_read(io, addr)

IO_write(io, addr, data) ==
    IF io.kind = "Memory" THEN [io EXCEPT !.ram = Memory_write(@, addr, data)]
    ELSE Bus_write(io, addr, data)

(***************************************************************************)
(* CPU6502.  Every operator takes the CPU state s and gives the state      *)
(* after the call; a call that also returns a value gives [st, val].       *)
(* s.fault marks that the call panicked on an arithmetic overflow, which   *)
(* a build with overflow checks does at each unchecked +, += of the        *)
(* source; the rest of the call is then skipped.                           *)
(***************************************************************************)
read(s, addr) == IO_read(s.mem, addr)

write(s, addr, data) == [s EXCEPT !.mem = IO_write(@, addr, data)]

panic(s) == [s EXCEPT !.fault = TRUE]

CPU6502_new(io) ==
    [mem |-> io, pc |-> 0, a |-> 0, x |-> 0, y |-> 0, sp |-> 0, p |-> 0, cycles |-> 0,
     instruction |-> Instruction(0), op_addr |-> 0, cycles_left |-> 0, fault |-> FALSE]

\* a reset that leaves the instruction in progress and the stack pointer alone
reset_keeps_cycles(s) ==
    [s EXCEPT !.pc = Word(read(s, 65533), read(s, 65532)), !.a = 0, !.x = 0, !.y = 0,
              !.p = Status_U, !.instruction = Instruction(0), !.op_addr = 0]

reset(s) ==
    LET pc_lo == read(s, 65532)
        pc_hi == read(s, 65533)
    IN  [s EXCEPT !.pc = Word(pc_hi, pc_lo), !.a = 0, !.x = 0, !.y = 0, !.sp = 255,
                  !.p = Status_U, !.instruction = Instruction(0), !.op_addr = 0,
                  !.cycles_left = 0]

halted(s) == contains(s.p, Status_B)

crossed_page_boundary(s, addr) == And16(addr, 65280) # And16(s.pc, 65280)

set_arithmetic_status(s, val) ==
    [s EXCEPT !.p = set(set(@, Status_N, And8(val, 128) # 0), Status_Z, val = 0)]

\* self.pc += 1
pc_inc(s) ==
    IF s.pc + 1 > 65535
    THEN (IF overflow_checks THEN panic(s) ELSE [s EXCEPT !.pc = 0])
    ELSE [s EXCEPT !.pc = @ + 1]

pop_u8(s) == [st |-> pc_inc(s), val |-> read(s, s.pc)]

pop_u16(s) ==
    LET lo == pop_u8(s)
        hi == pop_u8(lo.st)
    IN  IF lo.st.fault THEN [st |-> lo.st, val |-> 0]
        ELSE [st |-> hi.st, val |-> Word(hi.val, lo.val)]

push_stack(s, byte) ==
    LET stkp == STACK + s.sp
    IN  [write(s, stkp, byte) EXCEPT !.sp = (s.sp + 255) % 256]

pop_stack(s) ==
    LET stkp == STACK + s.sp
    IN  [st |-> [s EXCEPT !.sp = (s.sp + 1) % 256], val |-> read(s, stkp + 1)]

\* Addressing modes

abs(s) ==
    LET r == pop_u16(s)
    IN  IF r.st.fault THEN r.st ELSE [r.st EXCEPT !.op_addr = r.val]

imm(s) ==
    LET addr == s.pc
        s1 == pc_inc(s)
    IN  IF s1.fault THEN s1 ELSE [s1 EXCEPT !.op_addr = addr]

ind(s) ==
    LET r == pop_u16(s)
        addr_ptr == r.val
        lo == read(r.st, addr_ptr)
        hi == read(r.st, (addr_ptr + 1) % 65536)
    IN  IF r.st.fault THEN r.st
        ELSE IF addr_ptr + 1 > 65535 /\ overflow_checks THEN panic(r.st)
        ELSE [r.st EXCEPT !.op_addr = Word(hi, lo)]

zpg(s) ==
    LET r == pop_u8(s)
    IN  IF r.st.fault THEN r.st ELSE [r.st EXCEPT !.op_addr = r.val]

zpx_with_carry(s) ==
    LET r == pop_u8(s)
    IN  IF r.st.fault THEN r.st ELSE [r.st EXCEPT !.op_addr = r.val + s.x]

zpx(s) ==
    LET r == pop_u8(s)
    IN  IF r.st.fault THEN r.st ELSE [r.st EXCEPT !.op_addr = (r.val + s.x) % 256]

zpy(s) ==
    LET r == pop_u8(s)
    IN  IF r.st.fault THEN r.st ELSE [r.st EXCEPT !.op_addr = (r.val + s.y) % 256]

\* abx and aby with the index register's value
ab_indexed(s, index) ==
    LET s1 == abs(s)
        abs_addr == s1.op_addr
        addr == (abs_addr + index) % 65536
    IN  IF s1.fault THEN s1
        ELSE IF abs_addr + index > 65535 /\ overflow_checks THEN panic(s1)
        ELSE [s1 EXCEPT !.cycles_left = IF crossed_page_boundary(s1, addr) THEN @ + 1 ELSE @,
                        !.op_addr = addr]

abx(s) == ab_indexed(s, s.x)

aby(s) == ab_indexed(s, s.y)

rel(s) ==
    LET r == pop_u8(s)
        offset == r.val
        addr == IF And8(offset, 128) = 128
                THEN (r.st.pc + 65280 + offset) % 65536
                ELSE (r.st.pc + offset) % 65536
    IN  IF r.st.fault THEN r.st ELSE [r.st EXCEPT !.op_addr = addr]

zix(s) ==
    LET r == pop_u8(s)
        ptr == (r.val + s.x) % 256
        lo == read(r.st, ptr)
        hi == read(r.st, ptr + 1)
    IN  IF r.st.fault THEN r.st ELSE [r.st EXCEPT !.op_addr = Word(hi, lo)]

ziy(s) ==
    LET s1 == zpg(s)
        ptr == s1.op_addr
        lo == read(s1, ptr)
        hi == read(s1, ptr + 1)
        addr == Word(hi, lo)
        s2 == [s1 EXCEPT !.cycles_left = IF crossed_page_boundary(s1, addr) THEN @ + 1 ELSE @]
    IN  IF s1.fault THEN s1
        ELSE IF addr + s.y > 65535 /\ overflow_checks THEN panic(s2)
        ELSE [s2 EXCEPT !.op_addr = (addr + s.y) % 65536]

\* Operations

xxx(s) == s

add_a_(s, acc, val) ==
    LET carry_bit == And8(s.p, Status_C)
        result == (acc + val + carry_bit) % 256
        p1 == set(s.p, Status_C, result < acc)
        p2 == set(p1, Status_V,
                  And8(result, 128) # And8(acc, 128) /\ And8(result, 128) # And8(val, 128))
    IN  set_arithmetic_status([s EXCEPT !.a = result, !.p = p2], result)

adc(s) == add_a_(s, s.a, read(s, s.op_addr))

sbc(s) == add_a_(s, s.a, Xor8(read(s, s.op_addr), 255))

and(s) ==
    LET byte == read(s, s.op_addr)
    IN  set_arithmetic_status([s EXCEPT !.a = And8(@, byte)], And8(s.a, byte))

eor(s) ==
    LET m == read(s, s.op_addr)
    IN  set_arithmetic_status([s EXCEPT !.a = Xor8(@, m)], Xor8(s.a, m))

ora(s) ==
    LET m == read(s, s.op_addr)
    IN  set_arithmetic_status([s EXCEPT !.a = Or8(@, m)], Or8(s.a, m))

\* The shift and rotate helpers give [st, val]: the state with C updated and the result.
asl_(s, value) ==
    [st |-> [s EXCEPT !.p = set(@, Status_C, And8(value, 128) # 0)], val |-> (value * 2) % 256]

lsr_(s, value) ==
    [st |-> [s EXCEPT !.p = set(@, Status_C, And8(value, 1) # 0)], val |-> value \div 2]

rol_(s, value) ==
    LET carry_bit == And8(s.p, Status_C)
        shifted == (value * 2) % 256
        rol_value == IF carry_bit > 0 THEN Or8(shifted, 1) ELSE And8(shifted, 254)
    IN  [st |-> [s EXCEPT !.p = set(@, Status_C, And8(value, 128) # 0)], val |-> rol_value]

ror_(s, value) ==
    LET carry_bit == And8(s.p, Status_C)
        shifted == value \div 2
        ror_value == IF carry_bit > 0 THEN Or8(shifted, 128) ELSE And8(shifted, 127)
    IN  [st |-> [s EXCEPT !.p = set(@, Status_C, And8(value, 1) # 0)], val |-> ror_value]

asl(s) ==
    LET r == asl_(s, read(s, s.op_addr))
    IN  set_arithmetic_status(write(r.st, s.op_addr, r.val), r.val)

asl_a(s) ==
    LET r == asl_(s, s.a)
    IN  set_arithmetic_status([r.st EXCEPT !.a = r.val], r.val)

lsr(s) ==
    LET r == lsr_(s, read(s, s.op_addr))
    IN  set_arithmetic_status(write(r.st, s.op_addr, r.val), r.val)

lsr_a(s) ==
    LET r == lsr_(s, s.a)
    IN  set_arithmetic_status([r.st EXCEPT !.a = r.val], r.val)

rol(s) ==
    LET r == rol_(s, read(s, s.op_addr))
    IN  set_arithmetic_status(write(r.st, s.op_addr, r.val), r.val)

rol_a(s) ==
    LET r == rol_(s, s.a)
    IN  set_arithmetic_status([r.st EXCEPT !.a = r.val], r.val)

\* ror sets N and Z from the byte it read, not from the rotated value
ror(s) ==
    LET byte == read(s, s.op_addr)
        r == ror_(s, byte)
    IN  set_arithmetic_status(write(r.st, s.op_addr, r.val), byte)

ror_a(s) ==
    LET r == ror_(s, s.a)
    IN  set_arithmetic_status([r.st EXCEPT !.a = r.val], r.val)

interrupt_(s, vector_addr) ==
    LET pc_lo == And16(255, s.pc)
        pc_hi == And16(65280, s.pc) \div 256
        s1 == push_stack(s, pc_hi)
        s2 == push_stack(s1, pc_lo)
        s3 == push_stack(s2, set(s2.p, Status_B, FALSE))
        addr_lo == read(s3, vector_addr)
        addr_hi == read(s3, vector_addr + 1)
    IN  [s3 EXCEPT !.p = set(@, Status_I, TRUE), !.pc = Word(addr_hi, addr_lo)]

irq(s) ==
    IF ~contains(s.p, Status_I)
    THEN [interrupt_(s, 65534) EXCEPT !.cycles_left = 7]
    ELSE s

\* a BRK that raises the interrupt without marking B
brk_without_b(s) == irq(s)

brk(s) == irq([s EXCEPT !.p = set(@, Status_B, TRUE)])

branch_without_penalty(s) == [s EXCEPT !.pc = s.op_addr]

branch_(s) ==
    [s EXCEPT !.cycles_left = IF crossed_page_boundary(s, s.op_addr) THEN @ + 1 ELSE @,
              !.pc = s.op_addr]

\* the eight branches: one more cycle, then branch_, when the flag has the wanted value
branch_if(s, flag, wanted) ==
    IF contains(s.p, flag) = wanted
    THEN branch_([s EXCEPT !.cycles_left = @ + 1])
    ELSE s

bcc(s) == branch_if(s, Status_C, FALSE)
bcs(s) == branch_if(s, Status_C, TRUE)
beq(s) == branch_if(s, Status_Z, TRUE)
bmi(s) == branch_if(s, Status_N, TRUE)
bne(s) == branch_if(s, Status_Z, FALSE)
bpl(s) == branch_if(s, Status_N, FALSE)
bvc(s) == branch_if(s, Status_V, FALSE)
bvs(s) == branch_if(s, Status_V, TRUE)

clc(s) == [s EXCEPT !.p = set(@, Status_C, FALSE)]
cld(s) == [s EXCEPT !.p = set(@, Status_D, FALSE)]
cli(s) == [s EXCEPT !.p = set(@, Status_I, FALSE)]
clv(s) == [s EXCEPT !.p = set(@, Status_V, FALSE)]
sec(s) == [s EXCEPT !.p = set(@, Status_C, TRUE)]
sed(s) == [s EXCEPT !.p = set(@, Status_D, TRUE)]
sei(s) == [s EXCEPT !.p = set(@, Status_I, TRUE)]

dec(s) ==
    LET val == (read(s, s.op_addr) + 255) % 256
    IN  set_arithmetic_status(write(s, s.op_addr, val), val)

dex(s) == set_arithmetic_status([s EXCEPT !.x = (@ + 255) % 256], (s.x + 255) % 256)

dey(s) == set_arithmetic_status([s EXCEPT !.y = (@ + 255) % 256], (s.y + 255) % 256)

\* let result = m + 1: an unchecked u8 addition
inc(s) ==
    LET m == read(s, s.op_addr)
        result == (m + 1) % 256
    IN  IF m + 1 > 255 /\ overflow_checks THEN panic(s)
        ELSE set_arithmetic_status(write(s, s.op_addr, result), result)

inx(s) == set_arithmetic_status([s EXCEPT !.x = (@ + 1) % 256], (s.x + 1) % 256)

iny(s) == set_arithmetic_status([s EXCEPT !.y = (@ + 1) % 256], (s.y + 1) % 256)

bit_flags_swapped(s) ==
    LET byte == read(s, s.op_addr)
        p1 == set(s.p, Status_Z, And8(s.a, byte) = 0)
        p2 == set(p1, Status_V, (byte \div 128) % 2 # 0)
        p3 == set(p2, Status_N, (byte \div 64) % 2 # 0)
    IN  [s EXCEPT !.p = p3]

bit(s) ==
    LET byte == read(s, s.op_addr)
        p1 == set(s.p, Status_Z, And8(s.a, byte) = 0)
        p2 == set(p1, Status_V, (byte \div 64) % 2 # 0)
        p3 == set(p2, Status_N, (byte \div 128) % 2 # 0)
    IN  [s EXCEPT !.p = p3]

cmp_(s, value) ==
    LET m == read(s, s.op_addr)
        p1 == set(s.p, Status_Z, value = m)
        p2 == set(p1, Status_C, value >= m)
        p3 == set(p2, Status_N, And8((value + 256 - m) % 256, 128) # 0)
    IN  [s EXCEPT !.p = p3]

cmp(s) == cmp_(s, s.a)
cpx(s) == cmp_(s, s.x)
cpy(s) == cmp_(s, s.y)

jmp(s) == [s EXCEPT !.pc = s.op_addr]

jsr(s) ==
    LET pc_hi == Hi(s.pc)
        pc_lo == Lo(s.pc)
    IN  [push_stack(push_stack(s, pc_hi), pc_lo) EXCEPT !.pc = s.op_addr]

rti(s) ==
    LET status == pop_stack(s)
        s1 == [status.st EXCEPT !.p = Or8(set(status.val, Status_B, FALSE), Status_U)]
        pc_lo == pop_stack(s1)
        pc_hi == pop_stack(pc_lo.st)
    IN  [pc_hi.st EXCEPT !.pc = Word(pc_hi.val, pc_lo.val)]

rts(s) ==
    LET pc_lo == pop_stack(s)
        pc_hi == pop_stack(pc_lo.st)
    IN  [pc_hi.st EXCEPT !.pc = Word(pc_hi.val, pc_lo.val)]

lda(s) == LET m == read(s, s.op_addr) IN set_arithmetic_status([s EXCEPT !.a = m], m)
ldx(s) == LET m == read(s, s.op_addr) IN set_arithmetic_status([s EXCEPT !.x = m], m)
ldy(s) == LET m == read(s, s.op_addr) IN set_arithmetic_status([s EXCEPT !.y = m], m)

nop(s) == s

pha(s) == push_stack(s, s.a)

php(s) == push_stack(s, s.p)

pla(s) ==
    LET r == pop_stack(s)
    IN  set_arithmetic_status([r.st EXCEPT !.a = r.val], r.val)

plp_without_u(s) ==
    LET r == pop_stack(s)
    IN  [r.st EXCEPT !.p = set(r.val, Status_B, FALSE)]

plp(s) ==
    LET r == pop_stack(s)
    IN  [r.st EXCEPT !.p = Or8(set(r.val, Status_B, FALSE), Status_U)]

sta(s) == write(s, s.op_addr, s.a)
stx(s) == write(s, s.op_addr, s.x)
sty(s) == write(s, s.op_addr, s.y)

tax(s) == set_arithmetic_status([s EXCEPT !.x = s.a], s.a)
tay(s) == set_arithmetic_status([s EXCEPT !.y = s.a], s.a)
tsx(s) == set_arithmetic_status([s EXCEPT !.x = s.sp], s.sp)
txa(s) == set_arithmetic_status([s EXCEPT !.a = s.x], s.x)
txs(s) == set_arithmetic_status([s EXCEPT !.sp = s.x], s.x)
tya(s) == set_arithmetic_status([s EXCEPT !.a = s.y], s.y)

\* op(self): the table entry's operation
operation(s, fn) ==
    CASE fn = "adc" -> adc(s)     [] fn = "and" -> and(s)     [] fn = "asl" -> asl(s)
      [] fn = "asl_a" -> asl_a(s) [] fn = "bcc" -> bcc(s)     [] fn = "bcs" -> bcs(s)
      [] fn = "beq" -> beq(s)     [] fn = "bit" -> bit(s)     [] fn = "bmi" -> bmi(s)
      [] fn = "bne" -> bne(s)     [] fn = "bpl" -> bpl(s)     [] fn = "brk" -> brk(s)
      [] fn = "bvc" -> bvc(s)     [] fn = "bvs" -> bvs(s)     [] fn = "clc" -> clc(s)
      [] fn = "cld" -> cld(s)     [] fn = "cli" -> cli(s)     [] fn = "clv" -> clv(s)
      [] fn = "cmp" -> cmp(s)     [] fn = "cpx" -> cpx(s)     [] fn = "cpy" -> cpy(s)
      [] fn = "dec" -> dec(s)     [] fn = "dex" -> dex(s)     [] fn = "dey" -> dey(s)
      [] fn = "eor" -> eor(s)     [] fn = "inc" -> inc(s)     [] fn = "inx" -> inx(s)
      [] fn = "iny" -> iny(s)     [] fn = "jmp" -> jmp(s)     [] fn = "jsr" -> jsr(s)
      [] fn = "lda" -> lda(s)     [] fn = "ldx" -> ldx(s)     [] fn = "ldy" -> ldy(s)
      [] fn = "lsr" -> lsr(s)     [] fn = "lsr_a" -> lsr_a(s) [] fn = "nop" -> nop(s)
      [] fn = "ora" -> ora(s)     [] fn = "pha" -> pha(s)     [] fn = "php" -> php(s)
      [] fn = "pla" -> pla(s)     [] fn = "plp" -> plp(s)     [] fn = "rol" -> rol(s)
      [] fn = "rol_a" -> rol_a(s) [] fn = "ror" -> ror(s)     [] fn = "ror_a" -> ror_a(s)
      [] fn = "rti" -> rti(s)     [] fn = "rts" -> rts(s)     [] fn = "sbc" -> sbc(s)
      [] fn = "sec" -> sec(s)     [] fn = "sed" -> sed(s)     [] fn = "sei" -> sei(s)
      [] fn = "sta" -> sta(s)     [] fn = "stx" -> stx(s)     [] fn = "sty" -> sty(s)
      [] fn = "tax" -> tax(s)     [] fn = "tay" -> tay(s)     [] fn = "tsx" -> tsx(s)
      [] fn = "txa" -> txa(s)     [] fn = "txs" -> txs(s)     [] fn = "tya" -> tya(s)
      [] fn = "xxx" -> xxx(s)

addressing(s, mode) ==
    CASE mode = "ABS" -> abs(s) [] mode = "ABX" -> abx(s) [] mode = "ABY" -> aby(s)
      [] mode = "IMM" -> imm(s) [] mode = "ZPX" -> zpx(s) [] mode = "ZPG" -> zpg(s)
      [] mode = "ZPY" -> zpy(s) [] mode = "IND" -> ind(s) [] mode = "REL" -> rel(s)
      [] mode = "ZIX" -> zix(s) [] mode = "ZIY" -> ziy(s)
      [] mode \in {"ACC", "IMP"} -> s

\* the second half of execute: the cycle count of the table entry is stored after
\* the addressing mode has run, then the operation runs
execute_operation(s1, instruction) ==
    IF s1.fault THEN s1
    ELSE operation([s1 EXCEPT !.cycles_left = instruction.cycles], instruction.fn)

execute(s, instruction) ==
    execute_operation(addressing([s EXCEPT !.instruction = instruction], instruction.mode),
                      instruction)

\* the fetch of clock: let opcode = self.pop_u8(); ...; self.execute(instruction)
clock_fetch(opcode) ==
    IF opcode.st.fault THEN opcode.st
    ELSE execute([opcode.st EXCEPT !.cycles_left = Instruction(opcode.val).cycles],
                 Instruction(opcode.val))

\* the end of clock: self.cycles += 1; self.cycles_left -= 1
clock_count(s1) ==
    IF s1.fault THEN s1
    ELSE [s1 EXCEPT !.cycles = @ + 1, !.cycles_left = @ - 1]

clock(s) == clock_count(IF s.cycles_left = 0 THEN clock_fetch(pop_u8(s)) ELSE s)

(***************************************************************************)
(* Bounds of the exploration.                                              *)
(***************************************************************************)
MaxCycles == 8     \* clock calls made on one test CPU
MaxResets == 1     \* reset calls made on one test CPU

(***************************************************************************)
(* The unit-test harness of cpu.rs: create_test_cpu loads an image into a  *)
(* bare Memory, the test resets the CPU, assigns registers and memory, and *)
(* then calls clock (and reset) as it likes.                               *)
(***************************************************************************)
Origins == {512}                          \* where the instruction under test sits
OperandLo == {0, 1, 40, 104, 128, 255}       \* first byte after the opcode ($28 PLP, $68 PLA as next opcodes)
OperandHi == {0, 255}                     \* second byte after the opcode

\* a branch near the end of a page, as test_beq places one: BPL, BMI, BVC, BVS, BCC,
\* BCS, BNE, BEQ at $00F5 with offset $40
BranchOrigins == {245}
BranchOpcodes == {16, 48, 80, 112, 144, 176, 208, 240}
BranchOffsets == {64}

\* registers and reset vector the test assigns after reset
HarnessCases ==
    { [a |-> 0,   x |-> 0,   y |-> 0,   sp |-> 255, p |-> Status_U, vector |-> 512],
      [a |-> 128, x |-> 1,   y |-> 1,   sp |-> 0,
       p |-> Status_U + Status_C + Status_Z, vector |-> 4660],
      [a |-> 255, x |-> 255, y |-> 255, sp |-> 1,
       p |-> Status_U + Status_I + Status_N + Status_V, vector |-> 512],
      [a |-> 9,   x |-> 1,   y |-> 0,   sp |-> 255,
       p |-> Status_U + Status_D, vector |-> 65535] }

\* the memory image: the instruction, a zero-page pointer, stack bytes, an RTI as
\* interrupt handler at $0300, an RTS as subroutine at $0028, and the reset and
\* IRQ/BRK vectors
TestImage(org, program, vector) ==
    LET m1 == Memory_load(Memory_new, program, org)
        m2 == Memory_load(m1, <<255, 0>>, 128)
        m3 == Memory_load(m2, <<255, 255>>, 257)
        m4 == Memory_load(m3, <<64>>, 768)
        m5 == Memory_load(m4, <<96>>, 40)
    IN  Memory_load(m5, <<Lo(vector), Hi(vector), 0, 3>>, 65532)

create_test_cpu(ram) ==
    CPU6502_new([kind |-> "Memory", ram |-> ram, rng |-> FALSE, cart |-> NoCart, entropy |-> 0])

TestCpu(org, program, h) ==
    [reset(create_test_cpu(TestImage(org, program, h.vector))) EXCEPT
        !.pc = org, !.a = h.a, !.x = h.x, !.y = h.y, !.sp = h.sp, !.p = h.p]

(***************************************************************************)
(* History of the calls made on the CPU.  pre is the CPU before the last   *)
(* call; brk_since tells whether a BRK was executed with no PLP, RTI or    *)
(* reset since; pushed describes the instruction just executed when it was *)
(* a PHA or PHP, and roundtrip the push when a PLA follows it at once; last *)
(* is the instruction executed last and before the one executed before it. *)
(***************************************************************************)
NoPush == [valid |-> FALSE, sp |-> 0, v |-> 0]

\* an executed instruction: its mnemonic and the registers it started from
NoInstr == [op |-> "none", pc |-> 0, sp |-> 0, p |-> 0, a |-> 0]

\* CPU6502::decode_instruction and CPU6502::print_state write text to the standard
\* output; what is kept of them is the set of addresses they read on the bus
DEBUG == TRUE

decode_instruction(s) == IF s.instruction.mode = "IMM" THEN {s.op_addr} ELSE {}

print_state(s) == decode_instruction(s)

\* print_reads: the bus reads of the print_state that ended the last clock call
NoHist(c) ==
    [call |-> "none", pre |-> c, brk_since |-> FALSE, resets |-> 0,
     pushed |-> NoPush, roundtrip |-> NoPush, last |-> NoInstr, before |-> NoInstr,
     print_reads |-> {}]

Fetches(pre) == pre.cycles_left = 0

FetchedOpcode(pre) == read(pre, pre.pc)

FetchedInstruction(pre) == Instruction(FetchedOpcode(pre))

RecordClock(h, pre, post) ==
    LET executed == Fetches(pre) /\ ~post.fault
        op == FetchedInstruction(pre).op
    IN  [h EXCEPT
          !.call = "clock",
          !.pre = pre,
          !.print_reads = IF DEBUG /\ ~post.fault THEN print_state(post) ELSE {},
          !.brk_since = IF ~executed THEN @
                        ELSE IF op = "BRK" THEN TRUE
                        ELSE IF op \in {"PLP", "RTI"} THEN FALSE
                        ELSE @,
          !.pushed = IF ~executed THEN @
                     ELSE IF op = "PHA" THEN [valid |-> TRUE, sp |-> pre.sp, v |-> pre.a]
                     ELSE IF op = "PHP" THEN [valid |-> TRUE, sp |-> pre.sp, v |-> pre.p]
                     ELSE NoPush,
          !.roundtrip = IF ~executed THEN @
                        ELSE IF op = "PLA" THEN h.pushed
                        ELSE NoPush,
          !.before = IF executed THEN h.last ELSE @,
          !.last = IF executed
                   THEN [op |-> op, pc |-> pre.pc, sp |-> pre.sp, p |-> pre.p, a |-> pre.a]
                   ELSE @]

RecordReset(h, pre) ==
    [h EXCEPT !.call = "reset", !.pre = pre, !.brk_since = FALSE, !.resets = @ + 1,
              !.pushed = NoPush, !.roundtrip = NoPush, !.last = NoInstr,
              !.before = NoInstr, !.print_reads = {}]

\* the test CPUs are driven by their test alone: no machine, executor or frontend
IdleMachine ==
    /\ HALT = TRUE
    /\ cpu_lock = 0
    /\ machine = [breakpoints |-> {}, clock_speed |-> 0, non_interactive_mode |-> FALSE,
                  max_speed |-> FALSE]
    /\ executors = << >>
    /\ ui = [pc |-> "none", commands |-> 0, after_pause |-> FALSE,
             seen |-> [valid |-> FALSE, cycles_left |-> 0]]

InitCpu ==
    /\ overflow_checks \in BOOLEAN
    /\ \/ \E org \in Origins, opcode \in 0..255, lo \in OperandLo, hi \in OperandHi,
             h \in HarnessCases :
            cpu = TestCpu(org, <<opcode, lo, hi>>, h)
       \/ \E org \in BranchOrigins, opcode \in BranchOpcodes,
             lo \in OperandLo \cup BranchOffsets, h \in HarnessCases :
            cpu = TestCpu(org, <<opcode, lo>>, h)
    /\ hist = NoHist(cpu)
    /\ IdleMachine

\* c.clock()
TestClock ==
    /\ ~cpu.fault
    /\ cpu.cycles < MaxCycles
    /\ cpu' = clock(cpu)
    /\ hist' = RecordClock(hist, cpu, cpu')
    /\ UNCHANGED <<overflow_checks, HALT, cpu_lock, machine, executors, ui>>

\* c.reset()
TestReset ==
    /\ ~cpu.fault
    /\ hist.resets < MaxResets
    /\ cpu' = reset(cpu)
    /\ hist' = RecordReset(hist, cpu)
    /\ UNCHANGED <<overflow_checks, HALT, cpu_lock, machine, executors, ui>>

NextCpu == TestClock \/ TestReset

SpecCpu == InitCpu /\ [][NextCpu]_vars

(***************************************************************************)
(* The machine: machine.rs, and the frontends that drive it (bin/cli.rs    *)
(* and tui.rs).                                                            *)
(***************************************************************************)
MaxMachineCycles == 14  \* clock calls made on the machine's CPU
MaxExecutors == 2       \* executor threads spawned by run
MaxCommands == 2        \* step, reset, run and pause keys handled by the frontend

\* Rng::read returns a fresh random byte; one byte is drawn for each call
RngBytes == {0, 255}

\* FrameTimer: start_time is represented by the time elapsed since it, which the
\* pacing step draws from ElapsedInFrame; a sleep lasts the requested duration plus
\* one of Oversleeps (nanoseconds)
ElapsedInFrame == {0, 20000000}
Oversleeps == {0, 20000000}

FrameTimer_new(target_fps, clock_speed) ==
    [current_cycles |-> 0,
     cycles_per_frame |-> clock_speed \div target_fps,
     frame_time |-> 1000000000 \div target_fps,
     last_context_switch_error |-> 0]

computed(ft) == ft.current_cycles >= ft.cycles_per_frame

time_remaining(ft, elapsed) ==
    IF elapsed >= ft.frame_time THEN 0 ELSE ft.frame_time - elapsed

FrameTimer_clock(ft) == [ft EXCEPT !.current_cycles = @ + 1]

FrameTimer_reset_keeps_cycles(ft) == ft

FrameTimer_reset(ft) == [ft EXCEPT !.current_cycles = 0]

Bus_new ==
    [kind |-> "Bus", ram |-> Memory_new, ppu |-> Ppu_new, rng |-> TRUE, cart |-> NoCart,
     entropy |-> 0]

Machine_new ==
    [breakpoints |-> {}, clock_speed |-> 2000000, non_interactive_mode |-> FALSE,
     max_speed |-> FALSE]

\* Machine::load: self.cpu.lock().mem.mem.load(data, offset)
Machine_load(c, data, offset) == [c EXCEPT !.mem.ram = Memory_load(@, data, offset)]

\* Machine::reset, the part that is not cpu.reset()
Machine_reset(m) == [m EXCEPT !.breakpoints = {13417}]

\* one cpu.clock() on the bus, the random source giving byte r
BusClock(c, r) ==
    CHOOSE post \in { [clock(d) EXCEPT !.mem.entropy = 0] :
                          d \in { [c EXCEPT !.mem.entropy = r] } } : TRUE

\* cpu.clock() under the CPU lock, and the history of it
LockedClock(d, r) ==
    CHOOSE out \in { [cpu |-> post, hist |-> RecordClock(d.hist, d.cpu, post)] :
                         post \in {BusClock(d.cpu, r)} } : TRUE

\* Machine::step: cpu.clock(); while !cpu.halted() && cpu.cycles_left > 0 { cpu.clock() }
\* first tells the unconditional clock from the turns of the while loop
RECURSIVE step_loop(_, _, _)
step_loop(d, r, first) ==
    IF d.cpu.fault \/ (~first /\ (halted(d.cpu) \/ d.cpu.cycles_left = 0)) THEN d
    ELSE CHOOSE out \in { step_loop(next, r, FALSE) : next \in {LockedClock(d, r)} } : TRUE

step(c, h, r) == step_loop([cpu |-> c, hist |-> h], r, TRUE)

\* what the frontend saw of the CPU the first time it took the lock after a pause
NoSeen == [valid |-> FALSE, cycles_left |-> 0]

\* the thread that Machine::run spawns, at the top of its loop
NewExecutor(m) ==
    [pc |-> "lock",
     breakpoints |-> m.breakpoints,
     max_speed |-> m.max_speed,
     frame_timer |-> FrameTimer_new(60, m.clock_speed),
     requested |-> 0,
     \* history, for stating the properties
     last_op |-> "none", hit |-> FALSE, paused |-> FALSE, pause_cycles_left |-> 0,
     fetched_since_pause |-> 0, passed_since_pause |-> FALSE]

Live(x) == x.pc \notin {"done", "panicked"}

\* the programs handed to Machine::load and the --start options given with them:
\* NOP; LDA #1; INX; JMP $3466 at $3466, and INC $0603; .byte $FF at $0600
Images ==
    { [data |-> <<234, 169, 1, 232, 76, 102, 52>>, offset |-> 13414,
       starts |-> {<<13414>>, <<13417>>}],
      [data |-> <<238, 3, 6, 255>>, offset |-> 1536,
       starts |-> {<< >>, <<1536>>}] }

\* Machine.clock_speed, a public field: 240 Hz makes a frame of 4 cycles
ClockSpeeds == {240}

\* bin/cli.rs main, up to the point where it runs the machine or shows the TUI
Init ==
    /\ overflow_checks \in BOOLEAN
    /\ \E image \in Images, maxspeed \in BOOLEAN, run \in BOOLEAN, speed \in ClockSpeeds :
         \E start \in image.starts :
           LET loaded == Machine_load(CPU6502_new(Bus_new), image.data, image.offset)
               d == reset(loaded)
           IN  /\ cpu = IF start = << >> THEN d ELSE [d EXCEPT !.pc = start[1]]
               /\ machine = [Machine_reset(Machine_new) EXCEPT
                               !.clock_speed = speed, !.max_speed = maxspeed,
                               !.non_interactive_mode = run]
               /\ ui = [pc |-> IF run THEN "run" ELSE "draw", commands |-> 0,
                        after_pause |-> FALSE, seen |-> NoSeen]
    /\ hist = NoHist(cpu)
    /\ HALT = TRUE
    /\ cpu_lock = 0
    /\ executors = << >>

\* let mut cpu = cpu.lock();
ExecLock ==
    \E e \in DOMAIN executors :
        /\ executors[e].pc = "lock"
        /\ cpu_lock = 0
        /\ cpu_lock' = e
        /\ executors' = [executors EXCEPT ![e].pc = "check"]
        /\ UNCHANGED <<cpu, overflow_checks, hist, HALT, machine, ui>>

\* an executor that goes on to execute without looking at the halt flag
ExecIgnoreHalt ==
    \E e \in DOMAIN executors :
        /\ executors[e].pc = "check"
        /\ executors' = [executors EXCEPT ![e].pc = "execute",
                                          ![e].passed_since_pause = executors[e].paused]
        /\ UNCHANGED <<cpu, overflow_checks, hist, HALT, cpu_lock, machine, ui>>

\* if HALT.load(Ordering::Relaxed) { break 'running; }
ExecCheckHalt ==
    \E e \in DOMAIN executors :
        /\ executors[e].pc = "check"
        /\ IF HALT
           THEN /\ executors' = [executors EXCEPT ![e].pc = "done"]
                /\ cpu_lock' = 0
           ELSE /\ executors' = [executors EXCEPT ![e].pc = "execute",
                                                  ![e].passed_since_pause = executors[e].paused]
                /\ UNCHANGED cpu_lock
        /\ UNCHANGED <<cpu, overflow_checks, hist, HALT, machine, ui>>

\* one turn of 'execute: cpu.clock(); frame_timer.clock(); if cpu.cycles_left == 0 { break }
\* A panic in cpu.clock() ends the thread and drops the guard.
ExecClock ==
    \E e \in DOMAIN executors, r \in RngBytes :
      \E d \in {LockedClock([cpu |-> cpu, hist |-> hist], r)} :
        LET x == executors[e]
            fetched == Fetches(cpu)
            y == [x EXCEPT
                    !.last_op = IF fetched THEN FetchedInstruction(cpu).op ELSE @,
                    !.fetched_since_pause = IF fetched /\ x.paused THEN @ + 1 ELSE @]
        IN  /\ x.pc = "execute"
            /\ cpu.cycles < MaxMachineCycles
            /\ hist' = d.hist
            /\ IF d.cpu.fault
               THEN /\ cpu' = [d.cpu EXCEPT !.fault = FALSE]
                    /\ executors' = [executors EXCEPT ![e] = [y EXCEPT !.pc = "panicked"]]
                    /\ cpu_lock' = 0
               ELSE /\ cpu' = d.cpu
                    /\ executors' = [executors EXCEPT ![e] =
                          [y EXCEPT !.frame_timer = FrameTimer_clock(@),
                                    !.pc = IF d.cpu.cycles_left = 0 THEN "breakpoints"
                                           ELSE "execute"]]
                    /\ UNCHANGED cpu_lock
            /\ UNCHANGED <<overflow_checks, HALT, machine, ui>>

\* if breakpoints.contains(&cpu.pc) { HALT.store(true, Ordering::Relaxed); }
ExecBreakpoints ==
    \E e \in DOMAIN executors :
        /\ executors[e].pc = "breakpoints"
        /\ IF cpu.pc \in executors[e].breakpoints
           THEN /\ HALT' = TRUE
                /\ executors' = [executors EXCEPT ![e].pc = "pace", ![e].hit = TRUE]
           ELSE /\ executors' = [executors EXCEPT ![e].pc = "pace"]
                /\ UNCHANGED HALT
        /\ UNCHANGED <<cpu, overflow_checks, hist, cpu_lock, machine, ui>>

\* if !max_speed && frame_timer.computed() { frame_timer.sleep(); frame_timer.reset(); }
\* up to the call of std::thread::sleep; when there is nothing to sleep the loop
\* body ends here and the guard is dropped.
ExecPace ==
    \E e \in DOMAIN executors, elapsed \in ElapsedInFrame :
        LET x == executors[e]
            ft == x.frame_timer
            remaining == time_remaining(ft, elapsed)
        IN  /\ x.pc = "pace"
            /\ IF ~x.max_speed /\ computed(ft)
               THEN IF remaining <= ft.last_context_switch_error
                    THEN /\ executors' = [executors EXCEPT
                               ![e].frame_timer = FrameTimer_reset(ft), ![e].pc = "lock"]
                         /\ cpu_lock' = 0
                    ELSE /\ executors' = [executors EXCEPT
                               ![e].requested = remaining - ft.last_context_switch_error,
                               ![e].pc = "sleeping"]
                         /\ UNCHANGED cpu_lock
               ELSE /\ executors' = [executors EXCEPT ![e].pc = "lock"]
                    /\ cpu_lock' = 0
            /\ UNCHANGED <<cpu, overflow_checks, hist, HALT, machine, ui>>

\* the sleep returns: last_context_switch_error = elapsed - requested, then
\* frame_timer.reset(); the loop body ends and the guard is dropped
ExecWake ==
    \E e \in DOMAIN executors, oversleep \in Oversleeps :
        LET x == executors[e]
            slept == x.requested + oversleep
        IN  /\ x.pc = "sleeping"
            /\ executors' = [executors EXCEPT
                  ![e].frame_timer = FrameTimer_reset(
                      [@ EXCEPT !.last_context_switch_error = slept - x.requested]),
                  ![e].requested = 0,
                  ![e].pc = "lock"]
            /\ cpu_lock' = 0
            /\ UNCHANGED <<cpu, overflow_checks, hist, HALT, machine, ui>>

\* Machine::run: HALT.store(false), then spawn the executor thread
run ==
    /\ Len(executors) < MaxExecutors
    /\ HALT' = FALSE
    /\ executors' = Append([e \in DOMAIN executors |-> [executors[e] EXCEPT !.paused = FALSE]],
                           NewExecutor(machine))

\* Machine::pause: HALT.store(true)
pause ==
    /\ HALT' = TRUE
    /\ executors' = [e \in DOMAIN executors |->
          IF Live(executors[e]) /\ ~executors[e].paused
          THEN [executors[e] EXCEPT
                  !.paused = TRUE,
                  !.pause_cycles_left = IF cpu_lock = e THEN cpu.cycles_left ELSE 0,
                  !.fetched_since_pause = 0,
                  !.passed_since_pause = FALSE]
          ELSE executors[e]]

KeyHandled == [ui EXCEPT !.pc = "draw", !.commands = @ + 1, !.after_pause = FALSE]

\* tui.rs: let cpu = d.cpu.lock(); terminal.draw(...); drop(cpu);
UiDraw ==
    /\ ui.pc = "draw"
    /\ cpu_lock = 0
    /\ ui' = [ui EXCEPT !.pc = "poll", !.after_pause = FALSE,
                        !.seen = IF ui.after_pause
                                 THEN [valid |-> TRUE, cycles_left |-> cpu.cycles_left]
                                 ELSE NoSeen]
    /\ UNCHANGED <<cpu, overflow_checks, hist, HALT, cpu_lock, machine, executors>>

\* event::poll times out, or the key is not a command
UiNoKey ==
    /\ ui.pc = "poll"
    /\ ui' = [ui EXCEPT !.pc = "draw"]
    /\ UNCHANGED <<cpu, overflow_checks, hist, HALT, cpu_lock, machine, executors>>

\* 'q'
UiQuit ==
    /\ ui.pc = "poll"
    /\ ui' = [ui EXCEPT !.pc = "quit"]
    /\ UNCHANGED <<cpu, overflow_checks, hist, HALT, cpu_lock, machine, executors>>

\* 'n': d.step(), holding the CPU lock; a panic in cpu.clock() ends the thread
UiStep ==
    \E r \in RngBytes :
      \E post \in {step(cpu, hist, r)} :
        /\ ui.pc = "poll"
        /\ ui.commands < MaxCommands
        /\ cpu_lock = 0
        /\ cpu.cycles < MaxMachineCycles
        /\ cpu' = [post.cpu EXCEPT !.fault = FALSE]
        /\ hist' = post.hist
        /\ ui' = IF post.cpu.fault THEN [ui EXCEPT !.pc = "panicked"] ELSE KeyHandled
        /\ UNCHANGED <<overflow_checks, HALT, cpu_lock, machine, executors>>

\* 'r': d.reset(), holding the CPU lock
UiReset ==
    /\ ui.pc = "poll"
    /\ ui.commands < MaxCommands
    /\ cpu_lock = 0
    /\ cpu' = reset(cpu)
    /\ hist' = RecordReset(hist, cpu)
    /\ machine' = Machine_reset(machine)
    /\ ui' = KeyHandled
    /\ UNCHANGED <<overflow_checks, HALT, cpu_lock, executors>>

\* 'g': d.run()
UiRun ==
    /\ ui.pc = "poll"
    /\ ui.commands < MaxCommands
    /\ run
    /\ ui' = KeyHandled
    /\ UNCHANGED <<cpu, overflow_checks, hist, cpu_lock, machine>>

\* 's': d.pause()
UiPause ==
    /\ ui.pc = "poll"
    /\ ui.commands < MaxCommands
    /\ pause
    /\ ui' = [KeyHandled EXCEPT !.after_pause = TRUE]
    /\ UNCHANGED <<cpu, overflow_checks, hist, cpu_lock, machine>>

\* bin/cli.rs with --run: let handle = d.run();
MainRun ==
    /\ ui.pc = "run"
    /\ run
    /\ ui' = [ui EXCEPT !.pc = "join"]
    /\ UNCHANGED <<cpu, overflow_checks, hist, cpu_lock, machine>>

\* handle.unwrap().join(); returns when the executor thread has ended
MainJoin ==
    /\ ui.pc = "join"
    /\ ~Live(executors[1])
    /\ ui' = [ui EXCEPT !.pc = "exit"]
    /\ UNCHANGED <<cpu, overflow_checks, hist, HALT, cpu_lock, machine, executors>>

Next ==
    \/ ExecLock \/ ExecCheckHalt \/ ExecClock \/ ExecBreakpoints \/ ExecPace \/ ExecWake
    \/ UiDraw \/ UiNoKey \/ UiQuit \/ UiStep \/ UiReset \/ UiRun \/ UiPause
    \/ MainRun \/ MainJoin

Spec == Init /\ [][Next]_vars

(***************************************************************************)
(* Properties of the CPU, stated on the history of the last call.          *)
(***************************************************************************)
Retired == hist.call = "clock" /\ Fetches(hist.pre) /\ ~cpu.fault

Branches == {"BCC", "BCS", "BEQ", "BMI", "BNE", "BPL", "BVC", "BVS"}

\* whether the branch condition of mnemonic op holds in status p
BranchCondition(op, p) ==
    CASE op = "BCC" -> ~contains(p, Status_C) [] op = "BCS" -> contains(p, Status_C)
      [] op = "BEQ" -> contains(p, Status_Z)  [] op = "BNE" -> ~contains(p, Status_Z)
      [] op = "BMI" -> contains(p, Status_N)  [] op = "BPL" -> ~contains(p, Status_N)
      [] op = "BVC" -> ~contains(p, Status_V) [] op = "BVS" -> contains(p, Status_V)

\* the operand bytes that follow the opcode the CPU is about to fetch
Operand1(pre) == read(pre, (pre.pc + 1) % 65536)
Operand2(pre) == read(pre, (pre.pc + 2) % 65536)

\* the penalties as the 6502 rules give them, from the state before the fetch
PageCrossPenalty(pre) ==
    LET mode == FetchedInstruction(pre).mode
        base == IF mode = "ZIY"
                THEN Word(read(pre, (Operand1(pre) + 1) % 65536), read(pre, Operand1(pre)))
                ELSE Word(Operand2(pre), Operand1(pre))
        index == IF mode = "ABX" THEN pre.x ELSE pre.y
    IN  IF mode \in {"ABX", "ABY", "ZIY"} /\ Hi(base) # Hi((base + index) % 65536)
        THEN 1 ELSE 0

BranchTaken(pre) ==
    LET op == FetchedInstruction(pre).op
    IN  op \in Branches /\ BranchCondition(op, pre.p)

BranchTarget(pre) ==
    LET next == (pre.pc + 2) % 65536
        offset == Operand1(pre)
    IN  (next + (IF offset >= 128 THEN offset + 65280 ELSE offset)) % 65536

BranchTakenPenalty(pre) == IF BranchTaken(pre) THEN 1 ELSE 0

BranchPageCrossPenalty(pre) ==
    IF BranchTaken(pre) /\ Hi(BranchTarget(pre)) # Hi((pre.pc + 2) % 65536) THEN 1 ELSE 0

\* C1: when clock fetches an instruction (cycles_left = 0), cycles_left on return is
\* base_cycles - 1 plus the page-cross penalty (ABX, ABY, ZIY operand whose high byte
\* changes when the index is added), the taken-branch penalty and the branch
\* page-cross penalty.
C1_CyclesLeftAtRetirement ==
    Retired =>
        cpu.cycles_left = FetchedInstruction(hist.pre).cycles - 1
                          + PageCrossPenalty(hist.pre)
                          + BranchTakenPenalty(hist.pre)
                          + BranchPageCrossPenalty(hist.pre)

\* C7: after reset, whatever the memory and the CPU state before it, PC is the
\* little-endian word at $FFFC/$FFFD, SP = $FF, P = U alone, A = X = Y = 0,
\* op_addr = 0 and cycles_left = 0.
C7_ResetState ==
    hist.call = "reset" =>
        /\ cpu.pc = Word(read(cpu, 65533), read(cpu, 65532))
        /\ cpu.sp = 255
        /\ cpu.p = Status_U
        /\ cpu.a = 0 /\ cpu.x = 0 /\ cpu.y = 0
        /\ cpu.op_addr = 0
        /\ cpu.cycles_left = 0

\* a reset made in the middle of an instruction, from non-zero registers, to a
\* non-zero vector
C7_Witness ==
    /\ hist.call = "reset"
    /\ hist.pre.cycles_left > 0
    /\ hist.pre.a # 0 /\ hist.pre.sp # 255 /\ hist.pre.p # Status_U
    /\ cpu.pc = 4660

BrkRetired == Retired /\ FetchedInstruction(hist.pre).fn = "brk"

\* C8: BRK, whatever I was, skips the padding byte, pushes that PC high byte then
\* low byte, pushes P with B set, sets I and loads PC from $FFFE/$FFFF.
C8_BrkSequence ==
    BrkRetired =>
        LET sp == hist.pre.sp
            ret == (hist.pre.pc + 2) % 65536
        IN  /\ read(cpu, STACK + sp) = Hi(ret)
            /\ read(cpu, STACK + ((sp + 255) % 256)) = Lo(ret)
            /\ read(cpu, STACK + ((sp + 254) % 256)) = Or8(hist.pre.p, Status_B)
            /\ cpu.sp = (sp + 253) % 256
            /\ contains(cpu.p, Status_I)
            /\ cpu.pc = Word(read(cpu, 65535), read(cpu, 65534))

\* C9: the CPU reports halted iff B is set, and B is set iff a BRK was executed
\* with no PLP, RTI or reset since.
C9_HaltedIffBrkSince ==
    /\ halted(cpu) <=> contains(cpu.p, Status_B)
    /\ contains(cpu.p, Status_B) <=> hist.brk_since

\* B was set by a BRK and then cleared again by a PLP or RTI that pulled a byte
\* with bit 4 set
C9_Witness ==
    /\ Retired
    /\ FetchedInstruction(hist.pre).op \in {"PLP", "RTI"}
    /\ halted(hist.pre)
    /\ contains(read(hist.pre, STACK + hist.pre.sp + 1), Status_B)
    /\ ~halted(cpu)

\* C10: a push of v followed at once by a pull returns v and leaves SP as it was
\* before the push, for every SP.
C10_PushPullRoundTrip ==
    (Retired /\ hist.roundtrip.valid) =>
        /\ cpu.a = hist.roundtrip.v
        /\ cpu.sp = hist.roundtrip.sp

(***************************************************************************)
(* Properties of the machine: the executor threads and the frontend.       *)
(***************************************************************************)
\* C2: a frontend that sets the halt flag and then takes the CPU lock sees the CPU
\* at an instruction boundary, cycles_left = 0, whatever commands came before.
C2_PauseSeesInstructionBoundary ==
    ui.seen.valid => ui.seen.cycles_left = 0

\* C3: an executor never holds the CPU lock while it sleeps for frame pacing.
C3_NoLockAcrossSleep ==
    \A e \in DOMAIN executors : executors[e].pc = "sleeping" => cpu_lock # e

\* C4: in non-interactive mode, once an executor has executed BRK and finished its
\* turn of the loop, the halt flag is set (so that the executor exits at its next
\* check and the --run invocation ends).
C4_BrkHaltsNonInteractiveRun ==
    \A e \in DOMAIN executors :
        ( /\ machine.non_interactive_mode
          /\ executors[e].last_op = "BRK"
          /\ executors[e].pc \in {"pace", "sleeping", "lock", "check"} ) => HALT

\* C5: after a pause requested while an executor runs, with no run since, the
\* executor fetches at most the instruction it was about to run or was running,
\* never passes the halt check at the top of its loop again, and so exits there.
C5_PausedExecutorStops ==
    \A e \in DOMAIN executors :
        executors[e].paused =>
            /\ ~executors[e].passed_since_pause
            /\ executors[e].fetched_since_pause <= 1
            /\ executors[e].pc \in {"check", "done"} => HALT

\* an executor paused in the middle of an instruction has drained it and exited
C5_Witness ==
    \E e \in DOMAIN executors :
        /\ executors[e].paused
        /\ executors[e].pause_cycles_left > 0
        /\ executors[e].fetched_since_pause = 0
        /\ executors[e].pc = "done"
        /\ cpu.cycles_left = 0

\* C6: an executor that found the PC in the breakpoint set after an instruction
\* exits without executing the instruction at that address.
C6_BreakpointStopsExecutor ==
    \A e \in DOMAIN executors : executors[e].hit => executors[e].pc # "execute"

(***************************************************************************)
(* Properties of subroutine calls and of the status register on the stack. *)
(***************************************************************************)
\* the instruction just executed is op, and the one executed before it was prev
Sequel(prev, op) == Retired /\ hist.last.op = op /\ hist.before.op = prev

\* C11: a JSR at address a followed by the RTS of the subroutine returns to a + 3
\* and restores SP, for every SP.
C11_JsrRtsRoundTrip ==
    Sequel("JSR", "RTS") =>
        /\ cpu.pc = (hist.before.pc + 3) % 65536
        /\ cpu.sp = hist.before.sp

\* C12: PHP followed at once by PLP leaves P as it was before the PHP but with B
\* cleared and U set, and SP as it was, for every P and SP.
C12_PhpPlpRoundTrip ==
    Sequel("PHP", "PLP") =>
        /\ cpu.p = Or8(set(hist.before.p, Status_B, FALSE), Status_U)
        /\ cpu.sp = hist.before.sp

(***************************************************************************)
(* Bus and cartridge bench.  A CPU6502 over the Bus that Machine::new      *)
(* makes, with or without the RNG, next to a ROM image: Cart::new builds   *)
(* the cartridge from the image, Bus::load_cart attaches it, and the bus    *)
(* and the cartridge are read and written as cart.rs' tests and the CPU do. *)
(* A ROM image is its length and its non-zero bytes.                       *)
(***************************************************************************)
MaxBusWrites == 2    \* writes made on one bus

RomByte(rom, i) == Memory_read(rom.bytes, i)

\* rom[from..to] moved to offset 0
RomSlice(rom, from, to) ==
    [k \in {i - from : i \in {j \in DOMAIN rom.bytes : j >= from /\ j < to}} |->
        rom.bytes[k + from]]

NoBuilt == [ok |-> FALSE, err |-> "none", cart |-> NoCart]

\* a slice past the end of the image panics
Cart_new_three_bytes(rom) ==
    IF rom.len < 16 THEN [NoBuilt EXCEPT !.err = "panic"]
    ELSE IF <<RomByte(rom, 0), RomByte(rom, 1), RomByte(rom, 2)>> # <<78, 69, 83>>
         THEN [NoBuilt EXCEPT !.err = "BadHeader"]
    ELSE IF rom.len < 24592 THEN [NoBuilt EXCEPT !.err = "panic"]
    ELSE [ok |-> TRUE, err |-> "none",
          cart |-> [present |-> TRUE, raw_header |-> RomSlice(rom, 0, 16),
                    prg_rom |-> RomSlice(rom, 16, 16400),
                    chr_rom |-> RomSlice(rom, 16400, 24592)]]

Cart_new(rom) ==
    IF rom.len < 16 THEN [NoBuilt EXCEPT !.err = "panic"]
    ELSE IF <<RomByte(rom, 0), RomByte(rom, 1), RomByte(rom, 2), RomByte(rom, 3)>>
              # <<78, 69, 83, 26>>
         THEN [NoBuilt EXCEPT !.err = "BadHeader"]
    ELSE IF rom.len < 24592 THEN [NoBuilt EXCEPT !.err = "panic"]
    ELSE [ok |-> TRUE, err |-> "none",
          cart |-> [present |-> TRUE, raw_header |-> RomSlice(rom, 0, 16),
                    prg_rom |-> RomSlice(rom, 16, 16400),
                    chr_rom |-> RomSlice(rom, 16400, 24592)]]

\* the bus and the PPU share the one immutable cartridge
Bus_load_cart(bus, cart) == [bus EXCEPT !.cart = cart, !.ppu.cart = cart]

\* create_rom of cart.rs' tests, with the header and the bytes a test then sets
create_rom(len, header, at16, at16399, at16400, at16416) ==
    [len |-> len,
     bytes |-> Memory_load(Memory_load(Memory_load(Memory_load(Memory_load(
                   Memory_new, header, 0), at16, 16), at16399, 16399), at16400, 16400),
                   at16416, 16416)]

RomImages ==
    { create_rom(24592, <<78, 69, 83, 26>>, <<171, 205>>, <<238>>, <<0>>, <<171>>),
      create_rom(24592, <<78, 69, 83, 26, 1>>, <<1, 0>>, <<0>>, <<2>>, <<0>>),
      create_rom(24592, <<83, 69, 71, 65>>, <<171, 205>>, <<238>>, <<0>>, <<171>>),
      create_rom(24592, <<78, 69, 83, 27>>, <<171, 205>>, <<238>>, <<0>>, <<171>>),
      create_rom(24592, <<0, 0, 0, 26>>, <<0, 0>>, <<0>>, <<0>>, <<0>>),
      create_rom(16, <<78, 69, 83, 26>>, <<0, 0>>, <<0>>, <<0>>, <<0>>) }

BusAddrs == {254, 512, 16384, 32767, 32768, 49153}
CartAddrs == {16, 8192, 32768, 32769, 49151, 49152, 49153, 65535}
BusBytes == {0, 171, 205}
PpuAddrs == {0, 16, 32, 8191, 8192, 16128}

NoWrite == [valid |-> FALSE, addr |-> 0, data |-> 0]

\* shadow is the bus on which no write to a cartridge address has landed
InitBus ==
    /\ overflow_checks = FALSE
    /\ \E rng \in BOOLEAN : cpu = CPU6502_new([Bus_new EXCEPT !.rng = rng])
    /\ \E rom \in RomImages :
         hist = [rom |-> rom, built |-> NoBuilt, op |-> "none", addr |-> 0, val |-> 0,
                 written |-> NoWrite, writes |-> 0, shadow |-> cpu.mem,
                 panicked |-> FALSE]
    /\ IdleMachine

\* Cart::new(&rom)
CartNew ==
    /\ hist.op = "none"
    /\ hist' = [hist EXCEPT !.built = Cart_new(hist.rom), !.op = "new",
                            !.panicked = (Cart_new(hist.rom).err = "panic")]
    /\ UNCHANGED <<cpu, overflow_checks, HALT, cpu_lock, machine, executors, ui>>

\* bus.load_cart(cart)
BusLoadCart ==
    /\ ~hist.panicked
    /\ hist.built.ok
    /\ ~cpu.mem.cart.present
    /\ cpu' = [cpu EXCEPT !.mem = Bus_load_cart(@, hist.built.cart)]
    /\ hist' = [hist EXCEPT !.op = "load_cart",
                            !.shadow = Bus_load_cart(@, hist.built.cart)]
    /\ UNCHANGED <<overflow_checks, HALT, cpu_lock, machine, executors, ui>>

\* cart.read(addr)
CartRead ==
    /\ ~hist.panicked
    /\ hist.built.ok
    /\ \E addr \in CartAddrs :
         hist' = [hist EXCEPT !.op = "cart_read", !.addr = addr,
                              !.val = Cart_read(hist.built.cart, addr)]
    /\ UNCHANGED <<cpu, overflow_checks, HALT, cpu_lock, machine, executors, ui>>

\* cpu.write(addr, data)
BusWrite ==
    /\ ~hist.panicked
    /\ hist.op # "none"
    /\ hist.writes < MaxBusWrites
    /\ \E addr \in BusAddrs, data \in BusBytes :
         /\ cpu' = write(cpu, addr, data)
         /\ hist' = [hist EXCEPT
                       !.op = "write", !.addr = addr, !.val = data,
                       !.written = [valid |-> TRUE, addr |-> addr, data |-> data],
                       !.writes = @ + 1,
                       !.shadow = IF cpu.mem.cart.present /\ addr >= 32768 THEN @
                                  ELSE Bus_write(@, addr, data)]
    /\ UNCHANGED <<overflow_checks, HALT, cpu_lock, machine, executors, ui>>

\* cpu.read(addr); a read of the RNG draws a byte
BusRead ==
    /\ ~hist.panicked
    /\ hist.op # "none"
    /\ \E addr \in BusAddrs, r \in RngBytes :
         hist' = [hist EXCEPT !.op = "read", !.addr = addr,
                              !.val = read([cpu EXCEPT !.mem.entropy = r], addr)]
    /\ UNCHANGED <<cpu, overflow_checks, HALT, cpu_lock, machine, executors, ui>>

\* cpu.mem.ppu.read(addr)
PpuRead ==
    /\ ~hist.panicked
    /\ hist.op # "none"
    /\ \E addr \in PpuAddrs :
         hist' = [hist EXCEPT !.op = "ppu_read", !.addr = addr,
                              !.val = Ppu_read(cpu.mem.ppu, addr)]
    /\ UNCHANGED <<cpu, overflow_checks, HALT, cpu_lock, machine, executors, ui>>

\* cpu.mem.ppu.write(addr, data)
PpuWrite ==
    /\ ~hist.panicked
    /\ hist.op # "none"
    /\ \E addr \in PpuAddrs, data \in BusBytes :
         LET w == Ppu_write(cpu.mem.ppu, addr, data)
         IN  /\ cpu' = [cpu EXCEPT !.mem.ppu = w.ppu]
             /\ hist' = [hist EXCEPT !.op = "ppu_write", !.addr = addr, !.val = data,
                                     !.panicked = w.panic]
    /\ UNCHANGED <<overflow_checks, HALT, cpu_lock, machine, executors, ui>>

NextBus == CartNew \/ BusLoadCart \/ CartRead \/ BusWrite \/ BusRead \/ PpuRead \/ PpuWrite

SpecBus == InitBus /\ [][NextBus]_vars

(***************************************************************************)
(* Claims about the bus and the cartridge, under SpecBus                   *)
(***************************************************************************)
CartAttached == cpu.mem.cart.present

\* the bus was just read at the address last written
ReadAfterWrite ==
    /\ hist.op = "read"
    /\ hist.written.valid
    /\ hist.written.addr = hist.addr

\* C13: a bus read of an address after a bus write of v to it returns v, unless the
\* address is $00FE with an RNG attached or in $8000-$FFFF with a cartridge attached.
C13_BusReadAfterWrite ==
    (/\ ReadAfterWrite
     /\ ~(hist.addr = 254 /\ cpu.mem.rng)
     /\ ~(hist.addr >= 32768 /\ CartAttached))
        => hist.val = hist.written.data

\* C14: with a cartridge attached a bus read in $8000-$FFFF returns the cartridge's
\* byte and a read below $8000 other than $00FE returns the RAM cell; with no cartridge
\* attached a read in $8000-$FFFF returns the RAM cell.
C14_BusReadRouting ==
    hist.op = "read" =>
        /\ (CartAttached /\ hist.addr >= 32768)
              => hist.val = Cart_read(cpu.mem.cart, hist.addr)
        /\ (CartAttached /\ hist.addr < 32768 /\ hist.addr # 254)
              => hist.val = Memory_read(cpu.mem.ram, hist.addr)
        /\ (~CartAttached /\ hist.addr >= 32768)
              => hist.val = Memory_read(cpu.mem.ram, hist.addr)

\* the offset in the 16 KB PRG ROM that the claim gives a CPU address of the cartridge
PrgOffset(addr) == IF addr >= 49152 THEN addr - 49152 ELSE addr - 32768

\* the other CPU address with the same offset
PrgMirror(addr) == IF addr >= 49152 THEN addr - 16384 ELSE addr + 16384

\* C15: a cartridge read of $8000+o equals a read of $C000+o, and both equal byte
\* 0x10+o of the ROM image the cartridge was built from, for every offset o in 0..$3FFF.
C15_PrgRomMirrored ==
    (hist.op = "cart_read" /\ hist.addr >= 32768) =>
        /\ hist.val = RomByte(hist.rom, 16 + PrgOffset(hist.addr))
        /\ hist.val = Cart_read(hist.built.cart, PrgMirror(hist.addr))

C15_Witness ==
    /\ hist.op = "cart_read"
    /\ hist.addr = 49153
    /\ hist.val = 205

\* C16: with a cartridge attached a write to $8000-$FFFF is discarded: the cartridge's
\* PRG and CHR contents stay those it was built with, and every bus read returns what
\* it returns on the bus on which these writes never landed.
C16_CartWriteDiscarded ==
    CartAttached =>
        /\ cpu.mem.cart.prg_rom = hist.built.cart.prg_rom
        /\ cpu.mem.cart.chr_rom = hist.built.cart.chr_rom
        /\ \A a \in BusAddrs \cup CartAddrs :
              Bus_read(cpu.mem, a) = Bus_read(hist.shadow, a)

C16_Witness ==
    /\ CartAttached
    /\ hist.op = "read"
    /\ hist.written.valid
    /\ hist.written.addr = 32768
    /\ hist.addr = 32768
    /\ hist.written.data = 205
    /\ hist.val = 171
    /\ Memory_read(cpu.mem.ram, 32768) = 205

HeaderOk(rom) ==
    <<RomByte(rom, 0), RomByte(rom, 1), RomByte(rom, 2), RomByte(rom, 3)>> = <<78, 69, 83, 26>>

\* C17: Cart::new of a 0x6010-byte image succeeds iff bytes 0..4 are 4E 45 53 1A; for any
\* other first four bytes it returns BadHeader and produces no cartridge.
C17_CartNewHeader ==
    (hist.op # "none" /\ hist.rom.len = 24592) =>
        /\ hist.built.ok <=> HeaderOk(hist.rom)
        /\ hist.built.ok => hist.built.cart.present
        /\ ~hist.built.ok => (hist.built.err = "BadHeader" /\ hist.built.cart = NoCart)

C17_Witness ==
    /\ hist.op = "new"
    /\ hist.rom.len = 24592
    /\ RomByte(hist.rom, 0) = 78
    /\ RomByte(hist.rom, 3) = 27
    /\ hist.built.err = "BadHeader"

(***************************************************************************)
(* Claims about arithmetic and branches, under SpecCpu                     *)
(***************************************************************************)
\* the byte ADC or SBC read as its operand (neither writes memory)
ArithOperand == read(cpu, cpu.op_addr)

CarryIn == IF contains(hist.last.p, Status_C) THEN 1 ELSE 0

\* C18: in binary mode ADC sets A to the low 8 bits of sum = A + M + C, C to sum > $FF,
\* V to ((A ^ sum) & (M ^ sum) & $80) # 0 and N, Z from the new A; SBC does the same
\* with M XOR $FF for M.
C18_BinaryAdcSbc ==
    (/\ Retired
     /\ hist.last.op \in {"ADC", "SBC"}
     /\ ~contains(hist.last.p, Status_D)) =>
        LET A == hist.last.a
            M == IF hist.last.op = "ADC" THEN ArithOperand ELSE Xor8(ArithOperand, 255)
            sum == A + M + CarryIn
        IN  /\ cpu.a = sum % 256
            /\ contains(cpu.p, Status_C) = (sum > 255)
            /\ contains(cpu.p, Status_V) =
                  (And8(And8(Xor8(A, sum % 256), Xor8(M, sum % 256)), 128) # 0)
            /\ contains(cpu.p, Status_N) = (cpu.a >= 128)
            /\ contains(cpu.p, Status_Z) = (cpu.a = 0)

\* packed BCD: two decimal digits in one byte
ValidBcd(b) == (b % 16) <= 9 /\ (b \div 16) <= 9
FromBcd(b) == ((b \div 16) * 10) + (b % 16)
ToBcd(n) == ((n \div 10) * 16) + (n % 10)

\* C19: with D set, ADC of valid BCD operands leaves the BCD sum in A and the decimal
\* carry in C (A = $09, C = 0, ADC #$01 gives A = $10 and C = 0).
C19_DecimalAdc ==
    (/\ Retired
     /\ hist.last.op = "ADC"
     /\ contains(hist.last.p, Status_D)
     /\ ValidBcd(hist.last.a)
     /\ ValidBcd(ArithOperand)) =>
        LET sum == FromBcd(hist.last.a) + FromBcd(ArithOperand) + CarryIn
        IN  /\ cpu.a = ToBcd(sum % 100)
            /\ contains(cpu.p, Status_C) = (sum > 99)

\* C20: a branch fetched at cycles_left = 0 that is not taken leaves PC just past its
\* two bytes and cycles_left = 1; a taken one leaves PC at the target and cycles_left = 2,
\* or 3 when the target is on another page than the PC following the branch.
C20_BranchCycles ==
    (Retired /\ hist.last.op \in Branches) =>
        LET next == (hist.pre.pc + 2) % 65536
            target == BranchTarget(hist.pre)
        IN  IF ~BranchCondition(hist.last.op, hist.pre.p)
            THEN cpu.pc = next /\ cpu.cycles_left = 1
            ELSE /\ cpu.pc = target
                 /\ cpu.cycles_left = IF Hi(target) # Hi(next) THEN 3 ELSE 2

\* a taken BEQ at $00F5 with offset $40 ends at $0137 with cycles_left = 3
C20_Witness ==
    /\ Retired
    /\ hist.last.op = "BEQ"
    /\ hist.last.pc = 245
    /\ cpu.pc = 311
    /\ cpu.cycles_left = 3

(***************************************************************************)
(* Claims about single instructions and the fetch, under SpecCpu           *)
(***************************************************************************)
\* the last call was a clock that fetched an instruction, whether or not it panicked
Fetched == hist.call = "clock" /\ Fetches(hist.pre)

\* C21: an opcode whose table entry is XXX changes neither A, X, Y, SP, P nor memory,
\* advances PC by exactly 1, leaves cycles_left at the tabled cycles minus 1, and does
\* not fault.
C21_IllegalOpcodeIsNop ==
    (Fetched /\ FetchedInstruction(hist.pre).op = "XXX") =>
        /\ ~cpu.fault
        /\ cpu.a = hist.pre.a /\ cpu.x = hist.pre.x /\ cpu.y = hist.pre.y
        /\ cpu.sp = hist.pre.sp /\ cpu.p = hist.pre.p
        /\ cpu.mem = hist.pre.mem
        /\ cpu.pc = (hist.pre.pc + 1) % 65536
        /\ cpu.cycles_left = FetchedInstruction(hist.pre).cycles - 1

\* C22: every update of PC wraps modulo 65536 and every update of SP modulo 256,
\* without fault: the fetch of an opcode at PC = $FFFF (here of an XXX, which moves PC
\* no further) leaves PC = $0000, a push at SP = $00 leaves SP = $FF and a pull at
\* SP = $FF leaves SP = $00.
C22_PcSpWrap ==
    /\ (Fetched /\ hist.pre.pc = 65535 /\ FetchedInstruction(hist.pre).op = "XXX")
          => (~cpu.fault /\ cpu.pc = 0)
    /\ (Fetched /\ hist.pre.sp = 0 /\ FetchedInstruction(hist.pre).op \in {"PHA", "PHP"})
          => (~cpu.fault /\ cpu.sp = 255)
    /\ (Fetched /\ hist.pre.sp = 255 /\ FetchedInstruction(hist.pre).op \in {"PLA", "PLP"})
          => (~cpu.fault /\ cpu.sp = 0)

\* C23: in every CPU state reachable from reset, whatever PLP and RTI pull from the
\* stack, the U flag of P is set.
C23_UnusedFlagSet == contains(cpu.p, Status_U)

\* a PLP that pulled the byte $00 a PHA had pushed
C23_Witness ==
    /\ Sequel("PHA", "PLP")
    /\ hist.before.a = 0
    /\ hist.before.sp = 255
    /\ cpu.p = Status_U

\* C24: ZPX (resp. ZPY) addressing of operand byte b yields op_addr = (b + X) mod 256
\* (resp. (b + Y) mod 256), in page zero; b = $80 with X = $FF yields $7F.
C24_ZeroPageIndexedWraps ==
    /\ (Retired /\ FetchedInstruction(hist.pre).mode = "ZPX")
          => cpu.op_addr = (Operand1(hist.pre) + hist.pre.x) % 256
    /\ (Retired /\ FetchedInstruction(hist.pre).mode = "ZPY")
          => cpu.op_addr = (Operand1(hist.pre) + hist.pre.y) % 256

C24_Witness ==
    /\ Retired
    /\ FetchedInstruction(hist.pre).mode = "ZPX"
    /\ Operand1(hist.pre) = 128
    /\ hist.pre.x = 255
    /\ cpu.op_addr = 127

\* C25: BIT sets Z iff (A AND M) = 0, V to bit 6 of M and N to bit 7 of M, and changes
\* no other flag, no register and no memory cell.
C25_BitFlags ==
    (Retired /\ hist.last.op = "BIT") =>
        LET M == read(hist.pre, cpu.op_addr)
            others == 255 - (Status_N + Status_V + Status_Z)
        IN  /\ contains(cpu.p, Status_Z) = (And8(hist.pre.a, M) = 0)
            /\ contains(cpu.p, Status_V) = (And8(M, 64) # 0)
            /\ contains(cpu.p, Status_N) = (And8(M, 128) # 0)
            /\ And8(cpu.p, others) = And8(hist.pre.p, others)
            /\ cpu.a = hist.pre.a /\ cpu.x = hist.pre.x /\ cpu.y = hist.pre.y
            /\ cpu.sp = hist.pre.sp
            /\ cpu.mem = hist.pre.mem

\* BIT of $60 with A = $80: Z and V set, N clear, C kept
C25_Witness ==
    /\ Retired
    /\ hist.last.op = "BIT"
    /\ hist.pre.a = 128
    /\ read(hist.pre, cpu.op_addr) = 96
    /\ cpu.p = Status_U + Status_C + Status_Z + Status_V

(***************************************************************************)
(* Machine::disassemble, one loop iteration per step.  hist holds the      *)
(* local addr and the instruction log being built: the number of entries,  *)
(* the addresses of its first and last entry, and whether every entry      *)
(* pushed so far had an address above the one before it.  The text of an   *)
(* entry is left out.                                                      *)
(***************************************************************************)
\* memory images (a program, and one byte at $FFFC where the sweep ends) and cartridges
DisCases ==
    { [data |-> << >>, offset |-> 0, last |-> 0, cart |-> NoCart],
      [data |-> <<234, 169, 1, 232, 76, 102, 52>>, offset |-> 13414, last |-> 76,
       cart |-> NoCart],
      [data |-> <<32, 40, 0, 108, 0, 2, 181, 16, 240, 254>>, offset |-> 512, last |-> 169,
       cart |-> NoCart],
      [data |-> <<238, 3, 6, 255>>, offset |-> 1536, last |-> 0,
       cart |-> Cart_new(create_rom(24592, <<78, 69, 83, 26>>, <<171, 205>>, <<238>>,
                                    <<0>>, <<171>>)).cart] }

next_instr_addr_stuck(mode, addr) ==
    IF mode \in {"ACC", "IMP"} THEN addr + 1
    ELSE IF mode \in {"ABS", "ABX", "ABY"} THEN addr + 3
    ELSE addr

\* the address of the next instruction, from the addressing mode
next_instr_addr(mode, addr) ==
    IF mode \in {"ACC", "IMP"} THEN addr + 1
    ELSE IF mode \in {"ABS", "ABX", "ABY"} THEN addr + 3
    ELSE addr + 2

NoLog == [len |-> 0, first |-> 0, last |-> 0, increasing |-> TRUE]

\* instructions.push((addr, ...))
log_push(log, addr) ==
    [len |-> log.len + 1,
     first |-> IF log.len = 0 THEN addr ELSE log.first,
     last |-> addr,
     increasing |-> log.increasing /\ (log.len = 0 \/ addr > log.last)]

\* Machine::load or Machine::load_cart, up to its call of disassemble
InitDis ==
    /\ overflow_checks \in BOOLEAN
    /\ \E c \in DisCases :
         cpu = [Machine_load(Machine_load(CPU6502_new(Bus_new), c.data, c.offset),
                             <<c.last>>, 65532)
                  EXCEPT !.mem.cart = c.cart, !.mem.ppu.cart = c.cart]
    /\ hist = [pc |-> "loop", addr |-> 0, instructions |-> NoLog, instruction_log |-> NoLog]
    /\ IdleMachine

\* one iteration of the while loop; the reads of addr + 1 and addr + 2 only feed the
\* text of the entry
DisLoop ==
    /\ hist.pc = "loop"
    /\ hist.addr < 65535 - 2
    /\ \E r \in RngBytes :
         LET opcode == Bus_read([cpu.mem EXCEPT !.entropy = r], hist.addr)
         IN  hist' = [hist EXCEPT
                        !.instructions = log_push(@, hist.addr),
                        !.addr = next_instr_addr(Instruction(opcode).mode, hist.addr)]
    /\ UNCHANGED <<cpu, overflow_checks, HALT, cpu_lock, machine, executors, ui>>

\* the loop ends and the log is returned and stored
DisReturn ==
    /\ hist.pc = "loop"
    /\ ~(hist.addr < 65535 - 2)
    /\ hist' = [hist EXCEPT !.pc = "done", !.instruction_log = hist.instructions]
    /\ UNCHANGED <<cpu, overflow_checks, HALT, cpu_lock, machine, executors, ui>>

NextDis == DisLoop \/ DisReturn

\* the thread that called disassemble keeps running
SpecDis == InitDis /\ [][NextDis]_vars /\ WF_vars(DisLoop) /\ WF_vars(DisReturn)

\* C26: for every bus memory image the disassembly sweep terminates, and the addresses
\* in the resulting log start at $0000 and strictly increase.
C26_DisassemblyTerminates ==
    /\ <>(hist.pc = "done")
    /\ [](/\ hist.instructions.increasing
          /\ hist.instructions.len > 0 => hist.instructions.first = 0
          /\ hist.addr <= 65535)
    /\ [](hist.pc = "done" =>
            /\ hist.instruction_log = hist.instructions
            /\ hist.instruction_log.len > 0)

C26_Witness ==
    /\ hist.pc = "done"
    /\ hist.addr = 65535
    /\ hist.instruction_log.last = 65532
    /\ hist.instruction_log.len < 65532

(***************************************************************************)
(* Further claims under SpecCpu                                            *)
(***************************************************************************)
\* C27: every push writes $0100 | SP and then decrements SP modulo 256, and every pull
\* increments SP modulo 256 and then reads $0100 | SP, so that only $0100-$01FF is
\* touched, for every SP including $00 and $FF (seen here on PHA and PLA).
C27_StackStaysInPageOne ==
    /\ (Retired /\ hist.last.op = "PHA") =>
          /\ cpu.mem = write(hist.pre, 256 + hist.pre.sp, hist.pre.a).mem
          /\ cpu.sp = (hist.pre.sp + 255) % 256
    /\ (Retired /\ hist.last.op = "PLA") =>
          /\ cpu.sp = (hist.pre.sp + 1) % 256
          /\ cpu.a = read(hist.pre, 256 + cpu.sp)
          /\ cpu.mem = hist.pre.mem

\* the last call was a clock made while an instruction was in progress
Waited == hist.call = "clock" /\ hist.pre.cycles_left > 0 /\ ~hist.pre.fault

\* C29: a clock call made while cycles_left > 0 decrements cycles_left by exactly 1,
\* counts one cycle, changes nothing else (PC, A, X, Y, SP, P, op_addr, the instruction
\* record, memory), and issues no bus read or write.
C29_WaitingClockOnlyCounts ==
    Waited =>
        /\ cpu = [hist.pre EXCEPT !.cycles = @ + 1, !.cycles_left = @ - 1]
        /\ hist.print_reads = {}

\* C30: PHP writes to the stack the value of P with bits B and U both set, whatever
\* their values in P, and leaves P itself unchanged.
C30_PhpPushesBAndU ==
    (Retired /\ hist.last.op = "PHP") =>
        /\ read(cpu, 256 + hist.pre.sp) = Or8(Or8(hist.pre.p, Status_B), Status_U)
        /\ cpu.p = hist.pre.p

(***************************************************************************)
(* Further claims about the machine, under Spec                            *)
(***************************************************************************)
LiveExecutors == {e \in DOMAIN executors : Live(executors[e])}

\* C28: at most one executor thread drives the CPU at any time: a run command issued
\* while running, or after pause before the previous executor has seen the halt flag
\* and exited, never leaves two executors.
C28_AtMostOneExecutor == Cardinality(LiveExecutors) <= 1

(***************************************************************************)
(* Claims about subroutines, counting and shifting, under SpecCpu          *)
(***************************************************************************)
StackAt(s, sp) == read(s, 256 + (sp % 256))

\* C31: JSR at address a pushes a + 2, the address of its last operand byte, high byte
\* first and then low byte; RTS pulls low then high and sets PC to the pulled word
\* plus 1.
C31_JsrPushesLastOperandByte ==
    /\ (Retired /\ hist.last.op = "JSR") =>
          /\ StackAt(cpu, hist.pre.sp) = Hi((hist.pre.pc + 2) % 65536)
          /\ StackAt(cpu, hist.pre.sp + 255) = Lo((hist.pre.pc + 2) % 65536)
    /\ (Retired /\ hist.last.op = "RTS") =>
          cpu.pc = (Word(StackAt(hist.pre, hist.pre.sp + 2),
                         StackAt(hist.pre, hist.pre.sp + 1)) + 1) % 65536

\* the flags N and Z of the CPU are those of byte v
FlagsOf(v) ==
    /\ contains(cpu.p, Status_Z) = (v = 0)
    /\ contains(cpu.p, Status_N) = (v >= 128)

\* C32: INC, INX, INY, DEC, DEX and DEY wrap modulo 256 without fault, on registers and
\* memory alike: $FF + 1 is $00 with Z set and N clear, $00 - 1 is $FF with N set and
\* Z clear.
C32_IncDecWrap ==
    Fetched =>
        LET op == FetchedInstruction(hist.pre).op
        IN  /\ op \in {"INC", "INX", "INY", "DEC", "DEX", "DEY"} => ~cpu.fault
            /\ op = "INC" => (/\ read(cpu, cpu.op_addr) = (read(hist.pre, cpu.op_addr) + 1) % 256
                              /\ FlagsOf(read(cpu, cpu.op_addr)))
            /\ op = "DEC" => (/\ read(cpu, cpu.op_addr) = (read(hist.pre, cpu.op_addr) + 255) % 256
                              /\ FlagsOf(read(cpu, cpu.op_addr)))
            /\ op = "INX" => (cpu.x = (hist.pre.x + 1) % 256 /\ FlagsOf(cpu.x))
            /\ op = "INY" => (cpu.y = (hist.pre.y + 1) % 256 /\ FlagsOf(cpu.y))
            /\ op = "DEX" => (cpu.x = (hist.pre.x + 255) % 256 /\ FlagsOf(cpu.x))
            /\ op = "DEY" => (cpu.y = (hist.pre.y + 255) % 256 /\ FlagsOf(cpu.y))

\* the accumulator variant of shift or rotate op, run on a CPU whose A holds byte b
AccumulatorVariant(op, s, b) ==
    LET t == [s EXCEPT !.a = b]
    IN  CASE op = "ASL" -> asl_a(t) [] op = "LSR" -> lsr_a(t)
          [] op = "ROL" -> rol_a(t) [] op = "ROR" -> ror_a(t)

ShiftFlags == Status_C + Status_N + Status_Z

\* C33: for ASL, LSR, ROL and ROR the memory variant gives, from the same input byte and
\* carry-in, the result byte and the flags C, N, Z of the accumulator variant, N and Z
\* being those of the result.
C33_ShiftMemoryMatchesAccumulator ==
    (/\ Retired
     /\ hist.last.op \in {"ASL", "LSR", "ROL", "ROR"}
     /\ cpu.instruction.mode # "ACC") =>
        LET acc == AccumulatorVariant(hist.last.op, hist.pre, read(hist.pre, cpu.op_addr))
        IN  /\ read(cpu, cpu.op_addr) = acc.a
            /\ And8(cpu.p, ShiftFlags) = And8(acc.p, ShiftFlags)
            /\ FlagsOf(read(cpu, cpu.op_addr))

(***************************************************************************)
(* Claims about pacing, reset and startup, under Spec                      *)
(***************************************************************************)
\* an executor between two instructions: at the top of its 'running loop
AtInstructionStart(x) == x.pc \in {"lock", "check"}

\* C34: with max-speed disabled, an instruction that brings the frame timer's cycles to
\* cycles_per_frame or more is followed by the pacing step and the reset of the count
\* before the next instruction, so the count is below cycles_per_frame at the start of
\* every instruction; the executor sleeps only then, and never with max-speed enabled.
C34_PacingAtFrameBoundary ==
    \A e \in DOMAIN executors :
        LET x == executors[e]
        IN  /\ (~x.max_speed /\ AtInstructionStart(x))
                  => x.frame_timer.current_cycles < x.frame_timer.cycles_per_frame
            /\ x.pc = "sleeping" => (~x.max_speed /\ computed(x.frame_timer))

\* an executor that slept at a frame boundary, overslept, and is back at the top of its
\* loop with the count reset
C34_Witness ==
    \E e \in DOMAIN executors :
        /\ executors[e].pc = "lock"
        /\ ~executors[e].max_speed
        /\ executors[e].last_op # "none"
        /\ executors[e].frame_timer.current_cycles = 0
        /\ executors[e].frame_timer.last_context_switch_error > 0

\* executor e takes the pacing step at a frame boundary
PacesAtBoundary(e) ==
    /\ executors[e].pc = "pace"
    /\ ~executors[e].max_speed
    /\ computed(executors[e].frame_timer)

\* C35: at every frame boundary the pacing step requests a sleep of time_remaining -
\* last_error, never negative, and on wake replaces last_error by actual_sleep -
\* requested: a step that has nothing left to sleep requests a sleep of zero and so
\* leaves last_error = 0, and an oversleep compensates the next sleep only.
C35_SleepErrorCompensatesOnce ==
    [][\A e \in DOMAIN executors :
          /\ (PacesAtBoundary(e) /\ executors'[e].pc = "sleeping") =>
                /\ executors'[e].requested >= 0
                /\ executors'[e].requested \in
                      { time_remaining(executors[e].frame_timer, elapsed)
                          - executors[e].frame_timer.last_context_switch_error :
                        elapsed \in ElapsedInFrame }
          /\ (PacesAtBoundary(e) /\ executors'[e].pc = "lock") =>
                executors'[e].frame_timer.last_context_switch_error = 0
          /\ (executors[e].pc = "sleeping" /\ executors'[e].pc = "lock") =>
                executors'[e].frame_timer.last_context_switch_error \in Oversleeps
      ]_vars

(***************************************************************************)
(* Further claims about the cartridge and the PPU, under SpecBus           *)
(***************************************************************************)
\* C37: Cart::new of a slice shorter than 0x6010 bytes returns a cartridge format
\* error value and no cartridge; it does not panic.
C37_TruncatedImageIsFormatError ==
    (hist.op # "none" /\ hist.rom.len < 24592) =>
        /\ hist.built.err \notin {"none", "panic"}
        /\ ~hist.built.ok
        /\ hist.built.cart = NoCart
        /\ ~hist.panicked

\* C38: a PPU write at any address completes without panic and leaves every PPU read
\* as it was: the cartridge's CHR byte below $2000 with a cartridge, 0 otherwise.
C38_PpuWriteIsNoOp ==
    /\ hist.op = "ppu_write" => ~hist.panicked
    /\ \A addr \in PpuAddrs :
         Ppu_read(cpu.mem.ppu, addr) =
            IF addr < 8192 /\ CartAttached THEN RomByte(hist.rom, 16400 + addr) ELSE 0

(***************************************************************************)
(* A further claim about the disassembly, under SpecDis                    *)
(***************************************************************************)
\* the bytes an instruction of the addressing mode takes, opcode included
OperandSpan(mode) ==
    IF mode \in {"IMP", "ACC"} THEN 1
    ELSE IF mode \in {"ABS", "ABX", "ABY", "IND"} THEN 3
    ELSE 2

\* C39: the disassembler advances from one entry to the next by the span of the
\* opcode's addressing mode: 1 byte for IMP and ACC, 3 bytes for ABS, ABX, ABY and IND,
\* 2 bytes for every other mode.
C39_DisassemblerAdvancesBySpan ==
    [][(hist.pc = "loop" /\ hist'.pc = "loop") =>
          \E r \in RngBytes :
              hist'.addr = hist.addr
                  + OperandSpan(Instruction(Bus_read([cpu.mem EXCEPT !.entropy = r],
                                                     hist.addr)).mode)
      ]_vars

(***************************************************************************)
(* The startup of the command line program: bin/cli.rs main                *)
(***************************************************************************)
\* the built-in program ("Snake!")
Snake ==
    <<32, 6, 6, 32, 56, 6, 32, 13, 6, 32, 42, 6, 96, 169, 2, 133, 2, 169, 4, 133, 3,
       169, 17, 133, 16, 169, 16, 133, 18, 169, 15, 133, 20, 169, 4, 133, 17, 133, 19,
       133, 21, 96, 165, 254, 133, 0, 165, 254, 41, 3, 24, 105, 2, 133, 1, 96, 32, 77,
       6, 32, 141, 6, 32, 195, 6, 32, 25, 7, 32, 32, 7, 32, 45, 7, 76, 56, 6, 165, 255,
       201, 119, 240, 13, 201, 100, 240, 20, 201, 115, 240, 27, 201, 97, 240, 34, 96,
       169, 4, 36, 2, 208, 38, 169, 1, 133, 2, 96, 169, 8, 36, 2, 208, 27, 169, 2, 133,
       2, 96, 169, 1, 36, 2, 208, 16, 169, 4, 133, 2, 96, 169, 2, 36, 2, 208, 5, 169,
       8, 133, 2, 96, 96, 32, 148, 6, 32, 168, 6, 96, 165, 0, 197, 16, 208, 13, 165, 1,
       197, 17, 208, 7, 230, 3, 230, 3, 32, 42, 6, 96, 162, 2, 181, 16, 197, 16, 208,
       6, 181, 17, 197, 17, 240, 9, 232, 232, 228, 3, 240, 6, 76, 170, 6, 76, 53, 7,
       96, 166, 3, 202, 138, 181, 16, 149, 18, 202, 16, 249, 165, 2, 74, 176, 9, 74,
       176, 25, 74, 176, 31, 74, 176, 47, 165, 16, 56, 233, 32, 133, 16, 144, 1, 96,
       198, 17, 169, 1, 197, 17, 240, 40, 96, 230, 16, 169, 31, 36, 16, 240, 31, 96,
       165, 16, 24, 105, 32, 133, 16, 176, 1, 96, 230, 17, 169, 6, 197, 17, 240, 12,
       96, 198, 16, 165, 16, 41, 31, 201, 31, 240, 1, 96, 76, 53, 7, 160, 0, 165, 254,
       145, 0, 96, 166, 3, 169, 0, 129, 16, 162, 0, 169, 1, 129, 16, 96, 162, 0, 234,
       234, 202, 208, 251, 96 >>

\* u16::from_str_radix(digits, 16): digits holds the value of each character, 16 for a
\* character that is no hexadecimal digit; an empty text, such a character or a value
\* above $FFFF is an error
RECURSIVE radix16(_, _)
radix16(digits, acc) ==
    IF digits = << >> THEN [ok |-> TRUE, val |-> acc]
    ELSE IF Head(digits) > 15 \/ (acc * 16) + Head(digits) > 65535
         THEN [ok |-> FALSE, val |-> 0]
         ELSE radix16(Tail(digits), (acc * 16) + Head(digits))

from_str_radix(digits) ==
    IF digits = << >> THEN [ok |-> FALSE, val |-> 0] ELSE radix16(digits, 0)

\* from_str_radix(..).unwrap_or_default() of start.strip_prefix("0x").unwrap_or(&start):
\* start.digits is the text that is left once the prefix "0x", if any, is stripped
parse_start(start) ==
    LET r == from_str_radix(start.digits) IN IF r.ok THEN r.val ELSE 0

NoStart == [given |-> FALSE, digits |-> << >>]

\* --start 0x600, 3466, 10000 (too large), 6g (no number), and no --start
StartOptions ==
    { NoStart,
      [given |-> TRUE, digits |-> <<6, 0, 0>>],
      [given |-> TRUE, digits |-> <<3, 4, 6, 6>>],
      [given |-> TRUE, digits |-> <<1, 0, 0, 0, 0>>],
      [given |-> TRUE, digits |-> <<6, 16>>] }

\* Args::parse(): with a file, rom is its content; without, the built-in program
InitMain ==
    /\ overflow_checks \in BOOLEAN
    /\ cpu = CPU6502_new(Bus_new)
    /\ machine = Machine_new
    /\ \E file \in BOOLEAN, rom \in RomImages, start \in StartOptions,
          maxspeed \in BOOLEAN, run_flag \in BOOLEAN :
         hist = [pc |-> "new",
                 args |-> [file |-> file, start |-> start, maxspeed |-> maxspeed,
                           run |-> run_flag],
                 rom |-> IF file THEN rom ELSE create_rom(0, << >>, << >>, << >>, << >>, << >>),
                 before |-> [cpu |-> cpu, machine |-> machine, HALT |-> TRUE]]
    /\ HALT = TRUE
    /\ cpu_lock = 0
    /\ executors = << >>
    /\ ui = [pc |-> "none", commands |-> 0, after_pause |-> FALSE, seen |-> NoSeen]

\* d.load_cart(&rom), whose expect panics on an error, or d.load(&rom, 0x600)
MainLoad ==
    /\ hist.pc = "new"
    /\ IF hist.args.file
       THEN LET built == Cart_new(hist.rom)
            IN  IF built.ok
                THEN /\ cpu' = [cpu EXCEPT !.mem = Bus_load_cart(@, built.cart)]
                     /\ hist' = [hist EXCEPT !.pc = "loaded"]
                ELSE /\ cpu' = cpu
                     /\ hist' = [hist EXCEPT !.pc = "panicked"]
       ELSE /\ cpu' = Machine_load(cpu, Snake, 1536)
            /\ hist' = [hist EXCEPT !.pc = "loaded"]
    /\ UNCHANGED <<overflow_checks, HALT, cpu_lock, machine, executors, ui>>

\* d.reset()
MainReset ==
    /\ hist.pc = "loaded"
    /\ cpu' = reset(cpu)
    /\ machine' = Machine_reset(machine)
    /\ hist' = [hist EXCEPT !.pc = "reset",
                            !.before = [cpu |-> cpu, machine |-> machine, HALT |-> HALT]]
    /\ UNCHANGED <<overflow_checks, HALT, cpu_lock, executors, ui>>

\* the --start, --maxspeed and --run options
MainOptions ==
    /\ hist.pc = "reset"
    /\ cpu' = IF hist.args.start.given
              THEN [cpu EXCEPT !.pc = parse_start(hist.args.start)]
              ELSE cpu
    /\ machine' = [machine EXCEPT
                     !.max_speed = IF hist.args.maxspeed THEN TRUE ELSE @,
                     !.non_interactive_mode = IF hist.args.run THEN TRUE ELSE @]
    /\ hist' = [hist EXCEPT !.pc = "started"]
    /\ UNCHANGED <<overflow_checks, HALT, cpu_lock, executors, ui>>

NextMain == MainLoad \/ MainReset \/ MainOptions

SpecMain == InitMain /\ [][NextMain]_vars

\* the registers, flags, op_addr, cycles_left and instruction record set to fixed values
WithoutRegisters(s) ==
    [s EXCEPT !.pc = 0, !.a = 0, !.x = 0, !.y = 0, !.sp = 0, !.p = 0, !.op_addr = 0,
              !.cycles_left = 0, !.instruction = Instruction(0)]

\* C36: Machine::reset changes only the CPU's registers, flags, op_addr, cycles_left
\* and current instruction: RAM, the cartridge, the total cycle counter, the halt flag
\* and the breakpoint set are the same after the reset as before it.
C36_ResetChangesOnlyCpuRegisters ==
    hist.pc = "reset" =>
        /\ WithoutRegisters(cpu) = WithoutRegisters(hist.before.cpu)
        /\ HALT = hist.before.HALT
        /\ machine.breakpoints = hist.before.machine.breakpoints

\* C40: started without a ROM file, the program has PC = $0600 after load, reset and
\* option handling, whatever the reset vector holds and also without --start.
C40_DemoStartsAt0600 ==
    (hist.pc = "started" /\ ~hist.args.file) =>
        cpu.pc = IF hist.args.start.given THEN parse_start(hist.args.start) ELSE 1536

====
